CONSTANTS
  Callers = {t1, t2}
  Charts = {c1, c2}
  Subcharts = {s1, s2}
  NoChart = NoChart
SPECIFICATION Spec
INVARIANT DisabledNeverRenders
