------------------------- MODULE ConfigBindingProofs -------------------------
(***************************************************************************)
(* Proofs about ConfigBinding, for any callers, namespaces and clients.    *)
(* What makes it work: what actions write to the shared configuration is   *)
(* its history limit and its capabilities, so it stays live and in its     *)
(* namespace; and a call that will swap in fakes never points to it. The   *)
(* records are argued about on top of that, for storage drivers that keep  *)
(* them in one place.                                                      *)
(***************************************************************************)
EXTENDS ConfigBinding, TLAPS

Built == {"chart", "client", "run", "act"}

DryInstall(t) == call[t].op = "install" /\ call[t].dry

(* The shared configuration is where the handle's was created, on the      *)
(* cluster, with the client last bound.                                    *)
SharedInv ==
  LET k == conf[Shared]
  IN k.ns = Home /\ k.backend = "live" /\ k.client = bound /\ k.store = Shared

(* A step leaves it there, and does not swap capabilities for made-up ones. *)
SharedKept ==
  LET k == conf[Shared]  k2 == conf'[Shared]
  IN /\ <<k2.ns, k2.backend, k2.store>> = <<k.ns, k.backend, k.store>>
     /\ k2.client = k.client
     /\ k2.caps \in {k.caps, "cluster"}

(* Between building its SDK action and using it, a call points to the      *)
(* shared configuration or its own, and to one that fits the request.      *)
Fits(t) ==
  /\ on[t] \in {Shared, t}
  /\ pc[t] \in Built => /\ conf[on[t]].ns = call[t].ns
                        /\ on[t] = Shared => ~ DryInstall(t)
  /\ pc[t] \in {"chart", "client", "run"} => conf[on[t]].backend = "live"
  /\ At(t, "act") => (conf[on[t]].backend = "fake" <=> DryInstall(t))

(* What a successful call has acted on. *)
Done(t) ==
  At(t, "idle") /\ code[t] = "OK" =>
    acted[t].ns = call[t].ns /\ (acted[t].backend = "fake" <=> DryInstall(t))

(* The history of bindings keeps up with the client a pull has read. *)
Seen(t) ==
  /\ At(t, "idle") => got[t] = NoClient
  /\ ~ At(t, "idle") => bound \in since[t]
  /\ got[t] # NoClient => got[t] \in since[t]

Inv == TypeOK /\ SharedInv /\ \A t \in Callers : Fits(t) /\ Done(t) /\ Seen(t)

-----------------------------------------------------------------------------
(* Every step of a call leaves alone what belongs to the others. *)
Own(t) ==
  \A u \in Callers \ {t} :
    /\ pc'[u] = pc[u] /\ call'[u] = call[u] /\ on'[u] = on[u] /\ got'[u] = got[u]
    /\ code'[u] = code[u] /\ acted'[u] = acted[u] /\ since'[u] = since[u]
    /\ conf'[u] = conf[u]

CallStep(t) ==
  \/ \E a \in Call : Start(t, a)
  \/ Builds(t) \/ PullTestsClient(t) \/ PullReadsClient(t)
  \/ CachesCapabilities(t) \/ Runs(t) \/ Acts(t) \/ Fails(t)

RecordTypes ==
  /\ found \in [Callers -> SUBSET Releases]
  /\ installed \subseteq Releases
  /\ kept \in [Callers -> SUBSET Releases]

LEMMA CallFields ==
  ASSUME NEW a \in Call
  PROVE  a.ns \in Namespace /\ a.max \in Limits
PROOF BY BindingAssumption DEF Call, Namespace, Releases

LEMMA NewConfigurationType ==
  ASSUME NEW n \in Namespace, NEW p \in Place
  PROVE  NewConfiguration(n, p) \in Configuration
PROOF BY BindingAssumption DEF NewConfiguration, Configuration, Place

LEMMA HomeIsNamespace == Home \in Namespace /\ All \in Namespace
PROOF BY DEF Namespace

LEMMA ChangedConfigurationType ==
  ASSUME NEW k \in Configuration, NEW c \in Clients \cup {NoClient}, NEW p \in Place,
         NEW m \in Limits
  PROVE  /\ Faked(k, p) \in Configuration /\ WithClient(k, c) \in Configuration
         /\ WithLimit(k, m) \in Configuration /\ WithCapabilities(k) \in Configuration
PROOF BY BindingAssumption DEF Faked, WithClient, WithLimit, WithCapabilities, Configuration

(* What the writes of an action leave of a configuration. *)
LEMMA WrittenFields ==
  ASSUME NEW k \in Configuration, NEW m,
         NEW k2 \in {WithLimit(k, m), WithCapabilities(k)}
  PROVE  /\ k2.ns = k.ns /\ k2.backend = k.backend /\ k2.store = k.store
         /\ k2.client = k.client /\ k2.caps \in {k.caps, "cluster"}
PROOF BY DEF WithLimit, WithCapabilities, Configuration

(* Initially nothing has happened. *)
LEMMA InitInv == Init => Inv
<1>1. SUFFICES ASSUME Init PROVE Inv
  OBVIOUS
<1>2. \A p \in Place : NewConfiguration(Home, p) \in Configuration
  BY HomeIsNamespace, NewConfigurationType
<1>3. TypeOK
  <2>1. conf \in [Place -> Configuration]
    BY <1>1, <1>2 DEF Init
  <2>2. call \in [Callers -> Call]
    BY <1>1, BindingAssumption DEF Init, Call, Releases
  <2>3. acted \in [Callers -> [ns : Namespace, backend : {"live", "fake"}, limit : Limits]]
    BY <1>1, HomeIsNamespace, BindingAssumption DEF Init, Nowhere
  <2>4. /\ stored \in [Place -> SUBSET Releases] /\ found \in [Callers -> SUBSET Releases]
        /\ installed \subseteq Releases /\ kept \in [Callers -> SUBSET Releases]
    BY <1>1 DEF Init
  <2>. QED BY <1>1, <2>1, <2>2, <2>3, <2>4 DEF Init, TypeOK, PC, Code, Place
<1>4. SharedInv
  BY <1>1 DEF Init, SharedInv, NewConfiguration, Place
<1>5. ASSUME NEW t \in Callers PROVE Fits(t) /\ Done(t) /\ Seen(t)
  BY <1>1 DEF Init, Fits, Done, Seen, At, Built
<1>. QED BY <1>3, <1>4, <1>5 DEF Inv

-----------------------------------------------------------------------------
(* The two ways a step of a call ends. *)

LEMMA ReturnStep ==
  ASSUME Inv, NEW t \in Callers, NEW c \in Code, NEW s \in [Place -> SUBSET Releases],
         Return(t, c, s), RecordTypes', bound' = bound, call' = call,
         overwritten' = overwritten,
         acted' \in [Callers -> [ns : Namespace, backend : {"live", "fake"}, limit : Limits]],
         \A u \in Callers \ {t} : acted'[u] = acted[u],
         c = "OK" => acted'[t].ns = call[t].ns /\ (acted'[t].backend = "fake" <=> DryInstall(t))
  PROVE  Inv' /\ Own(t) /\ conf'[Shared] = conf[Shared]
<1>1. t \in Place /\ NewConfiguration(Home, t) \in Configuration
  BY HomeIsNamespace, NewConfigurationType DEF Place
<1>2. TypeOK'
  <2>1. conf' \in [Place -> Configuration]
    BY <1>1 DEF Inv, TypeOK, Return, Place
  <2>2. pc' \in [Callers -> PC] /\ code' \in [Callers -> Code]
    BY DEF Inv, TypeOK, Return, Goto, PC
  <2>3. on' \in [Callers -> Place] /\ got' \in [Callers -> Clients \cup {NoClient}]
    BY DEF Inv, TypeOK, Return, Place
  <2>4. since' \in [Callers -> SUBSET (Clients \cup {NoClient})]
    BY DEF Inv, TypeOK, Return
  <2>5. stored' \in [Place -> SUBSET Releases]
    BY DEF Return
  <2>. QED BY <2>1, <2>2, <2>3, <2>4, <2>5 DEF Inv, TypeOK, RecordTypes
<1>3. conf'[Shared] = conf[Shared]
  BY BindingAssumption DEF Inv, TypeOK, Return, Place
<1>4. Own(t)
  BY DEF Own, Inv, TypeOK, Return, Goto, Place
<1>5. SharedInv'
  BY <1>3 DEF Inv, SharedInv
<1>6. Fits(t)' /\ Done(t)' /\ Seen(t)'
  BY DEF Inv, TypeOK, Return, Goto, Fits, Done, Seen, At, Built, DryInstall
<1>7. ASSUME NEW u \in Callers \ {t} PROVE Fits(u)' /\ Done(u)' /\ Seen(u)'
  BY <1>3, <1>4 DEF Own, Inv, Fits, Done, Seen, At, Built, DryInstall
<1>. QED BY <1>2, <1>3, <1>4, <1>5, <1>6, <1>7 DEF Inv

LEMMA StepKeepsInv ==
  ASSUME Inv, NEW t \in Callers, TypeOK', Own(t),
         conf'[Shared] = conf[Shared] \/ SharedKept, bound' = bound,
         Fits(t)', Done(t)', Seen(t)'
  PROVE  Inv'
<1>1. SharedInv'
  BY DEF Inv, SharedInv, SharedKept
<1>2. ASSUME NEW u \in Callers \ {t} PROVE Fits(u)' /\ Done(u)' /\ Seen(u)'
  BY DEF Own, Inv, Fits, Done, Seen, At, Built, DryInstall, SharedKept
<1>. QED BY <1>1, <1>2 DEF Inv

(* A call that builds its action on its own or the shared configuration.   *)
LEMMA BuildsOnStep ==
  ASSUME Inv, NEW t \in Callers, NEW p \in {Shared, t}, NEW l \in {"chart", "run"},
         BuildsOn(t, p, l), bound' = bound, call' = call, acted' = acted,
         overwritten' = overwritten,
         conf' \in [Place -> Configuration],
         \A q \in Place \ {t} : conf'[q] = conf[q],
         ~ At(t, "idle"),
         conf'[p].ns = call[t].ns, conf'[p].backend = "live", p = Shared => ~ DryInstall(t)
  PROVE  Inv' /\ Own(t) /\ conf'[Shared] = conf[Shared]
<1>1. Shared \in Place \ {t} /\ t \in Place /\ Callers \subseteq Place
  BY BindingAssumption DEF Place
<1>2. conf'[Shared] = conf[Shared]
  BY <1>1
<1>3. TypeOK'
  <2>1. pc' \in [Callers -> PC]
    BY DEF Inv, TypeOK, BuildsOn, Goto, PC
  <2>2. on' \in [Callers -> Place]
    BY <1>1 DEF Inv, TypeOK, BuildsOn
  <2>. QED BY <2>1, <2>2 DEF Inv, TypeOK, BuildsOn, records
<1>4. Own(t)
  BY <1>1 DEF Own, Inv, TypeOK, BuildsOn, Goto
<1>5. Fits(t)' /\ Done(t)'
  BY DEF Inv, TypeOK, BuildsOn, Goto, Fits, Done, At, Built, DryInstall
<1>6. Seen(t)'
  BY DEF Inv, TypeOK, BuildsOn, Goto, Seen, At
<1>. QED BY <1>2, <1>3, <1>4, <1>5, <1>6, StepKeepsInv

LEMMA StartStep ==
  ASSUME Inv, NEW t \in Callers, NEW a \in Call, Start(t, a)
  PROVE  Inv' /\ Own(t) /\ conf'[Shared] = conf[Shared]
<1>1. Nowhere \in [ns : Namespace, backend : {"live", "fake"}, limit : Limits]
  BY HomeIsNamespace, BindingAssumption DEF Nowhere
<1>2. TypeOK'
  <2>1. pc' \in [Callers -> PC] /\ code' \in [Callers -> Code] /\ call' \in [Callers -> Call]
    BY DEF Inv, TypeOK, Start, Goto, PC, Code
  <2>2. acted' \in [Callers -> [ns : Namespace, backend : {"live", "fake"}, limit : Limits]]
    BY <1>1 DEF Inv, TypeOK, Start
  <2>3. since' \in [Callers -> SUBSET (Clients \cup {NoClient})]
    BY DEF Inv, TypeOK, Start
  <2>4. /\ found' \in [Callers -> SUBSET Releases] /\ kept' \in [Callers -> SUBSET Releases]
        /\ stored' = stored /\ installed' = installed
    BY DEF Inv, TypeOK, Start
  <2>. QED BY <2>1, <2>2, <2>3, <2>4 DEF Inv, TypeOK, Start
<1>3. Own(t)
  BY DEF Own, Inv, TypeOK, Start, Goto
<1>4. Fits(t)'
  BY DEF Inv, TypeOK, Start, Goto, Fits, At, Built
<1>5. Done(t)'
  BY DEF Inv, TypeOK, Start, Goto, Done, At
<1>6. Seen(t)'
  BY DEF Inv, TypeOK, Start, Goto, Seen, At
<1>. QED BY <1>2, <1>3, <1>4, <1>5, <1>6, StepKeepsInv DEF Start

LEMMA BuildStep ==
  ASSUME Inv, NEW t \in Callers, Builds(t) \/ Fails(t)
  PROVE  Inv' /\ Own(t) /\ conf'[Shared] = conf[Shared]
<1>. /\ call[t] \in Call /\ call[t].ns \in Namespace /\ conf \in [Place -> Configuration]
     /\ Shared \in Place /\ t \in Place /\ t # Shared /\ acted = acted
  BY CallFields, BindingAssumption DEF Inv, TypeOK, Place
<1>. conf[Shared].ns = Home /\ conf[Shared].backend = "live" /\ conf[Shared] \in Configuration
  BY DEF Inv, SharedInv
<1>1. CASE NewInstall(t)
  <2>1. CASE call[t].ns = Home /\ ~ call[t].dry
    <3>1. BuildsOn(t, Shared, "chart") /\ UNCHANGED <<conf, call, acted, bound, overwritten>> /\ ~ At(t, "idle")
      BY <1>1, <2>1 DEF NewInstall, At
    <3>. QED BY <3>1, <2>1, BuildsOnStep DEF DryInstall
  <2>2. CASE ~ (call[t].ns = Home /\ ~ call[t].dry)
    <3>. DEFINE base == IF call[t].ns = Home THEN conf[Shared] ELSE NewConfiguration(call[t].ns, t)
    <3>1. base \in Configuration /\ base.ns = call[t].ns /\ base.backend = "live"
      BY NewConfigurationType DEF NewConfiguration
    <3>2. /\ BuildsOn(t, t, "chart") /\ conf' = [conf EXCEPT ![t] = base]
          /\ UNCHANGED <<call, acted, bound, overwritten>> /\ ~ At(t, "idle")
      BY <1>1, <2>2 DEF NewInstall, At
    <3>3. /\ conf' \in [Place -> Configuration]
          /\ \A q \in Place \ {t} : conf'[q] = conf[q]
          /\ conf'[t].ns = call[t].ns /\ conf'[t].backend = "live"
      <4>. HIDE DEF base
      <4>. QED BY <3>1, <3>2
    <3>. QED BY <3>2, <3>3, BuildsOnStep
  <2>. QED BY <2>1, <2>2
<1>2. CASE NewUpgrade(t)
  <2>1. CASE call[t].ns = Home
    <3>1. /\ BuildsOn(t, Shared, "chart") /\ UNCHANGED <<conf, call, acted, bound, overwritten>>
          /\ ~ At(t, "idle") /\ ~ DryInstall(t)
      BY <1>2, <2>1 DEF NewUpgrade, At, DryInstall
    <3>. QED BY <3>1, <2>1, BuildsOnStep
  <2>2. CASE call[t].ns # Home
    <3>1. Return(t, "Refused", stored) /\ UNCHANGED <<call, acted, bound, overwritten, found, installed, kept>>
      BY <1>2, <2>2 DEF NewUpgrade
    <3>. QED BY <3>1, ReturnStep DEF Code, Inv, TypeOK, RecordTypes
  <2>. QED BY <2>1, <2>2
<1>3. CASE ListReleases(t)
  <2>1. CASE call[t].ns = All
    <3>1. /\ BuildsOn(t, t, "run") /\ conf' = [conf EXCEPT ![t] = NewConfiguration(All, t)]
          /\ UNCHANGED <<call, acted, bound, overwritten>> /\ ~ At(t, "idle")
      BY <1>3, <2>1 DEF ListReleases, At
    <3>2. /\ NewConfiguration(All, t) \in Configuration
          /\ NewConfiguration(All, t).ns = All /\ NewConfiguration(All, t).backend = "live"
      BY NewConfigurationType, HomeIsNamespace DEF NewConfiguration
    <3>3. /\ conf' \in [Place -> Configuration]
          /\ \A q \in Place \ {t} : conf'[q] = conf[q]
          /\ conf'[t].ns = call[t].ns /\ conf'[t].backend = "live"
      BY <2>1, <3>1, <3>2
    <3>. QED BY <3>1, <3>3, BuildsOnStep
  <2>2. CASE call[t].ns # All
    <3>1. /\ BuildsOn(t, Shared, "run") /\ UNCHANGED <<conf, call, acted, bound, overwritten>>
          /\ ~ At(t, "idle") /\ ~ DryInstall(t)
      BY <1>3, <2>2 DEF ListReleases, At, DryInstall
    <3>2. call[t].ns = Home
      BY <1>3, <2>2 DEF ListReleases, Call
    <3>. QED BY <3>1, <3>2, BuildsOnStep
  <2>. QED BY <2>1, <2>2
<1>4. CASE OtherAction(t)
  <2>1. /\ BuildsOn(t, Shared, "run") /\ UNCHANGED <<conf, call, acted, bound, overwritten>>
        /\ ~ At(t, "idle") /\ ~ DryInstall(t) /\ call[t].ns = Home
    BY <1>4 DEF OtherAction, At, DryInstall, Call
  <2>. QED BY <2>1, BuildsOnStep
<1>5. CASE Fails(t)
  <2>1. Return(t, "Failed", stored) /\ UNCHANGED <<call, acted, bound, overwritten, found, installed, kept>>
    BY <1>5 DEF Fails
  <2>. QED BY <2>1, ReturnStep DEF Code, Inv, TypeOK, RecordTypes
<1>. QED BY <1>1, <1>2, <1>3, <1>4, <1>5 DEF Builds

(* An SDK action ends its call with records that are well formed.          *)
LEMMA ActsReturns ==
  ASSUME Inv, NEW t \in Callers, Acts(t)
  PROVE  /\ \E c \in {"OK", "Failed"}, s \in [Place -> SUBSET Releases] : Return(t, c, s)
         /\ RecordTypes'
<1>. DEFINE k == conf[on[t]]
<1>1. k.store \in Place /\ stored \in [Place -> SUBSET Releases] /\ RecordTypes
  BY DEF Inv, TypeOK, Configuration, RecordTypes
<1>2. CASE Installs(t)
  <2>1. k.ns \in Releases /\ call[t].ns \in Releases
    BY <1>2 DEF Installs, Reaches, At, Inv, TypeOK, Call, Fits, Built
  <2>2. [stored EXCEPT ![k.store] = @ \cup {k.ns}] \in [Place -> SUBSET Releases]
    BY <1>1, <2>1
  <2>3. RecordTypes'
    BY <1>1, <1>2, <2>1 DEF Installs, RecordTypes
  <2>. QED BY <1>1, <1>2, <2>2, <2>3 DEF Installs
<1>3. CASE Lists(t)
  <2>1. RecordTypes'
    BY <1>1, <1>3 DEF Lists, RecordTypes
  <2>. QED BY <1>1, <1>3, <2>1 DEF Lists
<1>4. CASE Uninstalls(t)
  <2>1. [stored EXCEPT ![k.store] = @ \ {k.ns}] \in [Place -> SUBSET Releases]
    BY <1>1
  <2>2. RecordTypes'
    BY <1>1, <1>4 DEF Uninstalls, RecordTypes
  <2>. QED BY <1>1, <1>4, <2>1, <2>2 DEF Uninstalls
<1>5. CASE Updates(t)
  BY <1>1, <1>5 DEF Updates, RecordTypes
<1>. QED BY <1>2, <1>3, <1>4, <1>5 DEF Acts

(* The two steps in which an action writes to a configuration that may be  *)
(* the shared one.                                                         *)
LEMMA WriteStep ==
  ASSUME Inv, NEW t \in Callers, CachesCapabilities(t) \/ (Runs(t) /\ SetsLimit(t))
  PROVE  /\ Inv' /\ Own(t) /\ SharedKept /\ pc'[t] \in {"run", "act"}
         /\ \A p \in Place : conf'[p].store = conf[p].store /\ conf'[p].backend = conf[p].backend
<1>. DEFINE k == conf[on[t]]
            k2 == IF CachesCapabilities(t) THEN WithCapabilities(k) ELSE WithLimit(k, call[t].max)
<1>1. /\ Shared \in Place /\ t \in Place /\ t # Shared /\ Callers \subseteq Place
      /\ on[t] \in {Shared, t} /\ k \in Configuration /\ call[t].max \in Limits
  BY BindingAssumption, CallFields DEF Inv, TypeOK, Place, Fits
<1>2. At(t, "run") /\ ~ DryInstall(t) /\ k.backend = "live" /\ k.ns = call[t].ns
  BY DEF CachesCapabilities, Runs, SetsLimit, DryInstall, Inv, Fits, At, Built
<1>3. /\ conf' = [conf EXCEPT ![on[t]] = k2]
      /\ UNCHANGED <<call, on, got, code, records, acted, bound, since>>
      /\ overwritten' \subseteq overwritten \cup Callers
      /\ pc' = pc \/ pc' = [pc EXCEPT ![t] = "act"]
  BY <1>2 DEF CachesCapabilities, Runs, SetsLimit, SetAlready, callVars, histVars, Goto
<1>4. /\ k2 \in Configuration
      /\ k2.ns = k.ns /\ k2.backend = k.backend /\ k2.store = k.store
      /\ k2.client = k.client /\ k2.caps \in {k.caps, "cluster"}
  BY <1>1, ChangedConfigurationType, WrittenFields
<1>. HIDE DEF k2
<1>5. /\ conf' \in [Place -> Configuration] /\ conf'[on[t]] = k2
      /\ \A p \in Place \ {on[t]} : conf'[p] = conf[p]
  BY <1>1, <1>3, <1>4 DEF Inv, TypeOK
<1>6. SharedKept
  BY <1>1, <1>4, <1>5 DEF SharedKept
<1>7. \A p \in Place : conf'[p].store = conf[p].store /\ conf'[p].backend = conf[p].backend
  BY <1>1, <1>4, <1>5
<1>8. pc' \in [Callers -> PC] /\ pc'[t] \in {"run", "act"} /\ \A u \in Callers \ {t} : pc'[u] = pc[u]
  BY <1>2, <1>3 DEF Inv, TypeOK, PC, At
<1>9. TypeOK'
  <2>1. TypeOK /\ UNCHANGED <<call, on, got, code, stored, found, installed, kept, acted, bound, since>>
    BY <1>3 DEF Inv, records
  <2>. QED BY <1>3, <1>5, <1>8, <2>1 DEF TypeOK
<1>10. Own(t)
  <2>1. ASSUME NEW u \in Callers \ {t} PROVE conf'[u] = conf[u]
    BY <1>1, <1>5, BindingAssumption
  <2>2. UNCHANGED <<call, on, got, code, acted, since>>
    BY <1>3
  <2>. QED BY <1>8, <2>1, <2>2 DEF Own
<1>11. Fits(t)' /\ Done(t)' /\ Seen(t)'
  BY <1>1, <1>2, <1>3, <1>4, <1>5, <1>8
  DEF Inv, Fits, Done, Seen, At, Built, DryInstall
<1>. QED BY <1>3, <1>6, <1>7, <1>8, <1>9, <1>10, <1>11, StepKeepsInv

LEMMA RunStep ==
  ASSUME Inv, NEW t \in Callers,
         PullTestsClient(t) \/ PullReadsClient(t) \/ (Runs(t) /\ ~ SetsLimit(t)) \/ Acts(t)
  PROVE  Inv' /\ Own(t) /\ conf'[Shared] = conf[Shared]
<1>. /\ Shared \in Place /\ t \in Place /\ t # Shared /\ Callers \subseteq Place
     /\ on[t] \in {Shared, t} /\ conf[on[t]] \in Configuration
  BY BindingAssumption DEF Inv, TypeOK, Place, Fits
<1>1. CASE PullTestsClient(t)
  <2>1. TypeOK'
    BY <1>1 DEF Inv, TypeOK, PullTestsClient, Goto, PC, records, histVars
  <2>2. Own(t)
    BY <1>1 DEF Own, Inv, TypeOK, PullTestsClient, Goto, histVars
  <2>3. Fits(t)' /\ Done(t)' /\ Seen(t)'
    BY <1>1 DEF Inv, TypeOK, PullTestsClient, Goto, Fits, Done, Seen, At, Built, DryInstall, histVars
  <2>. QED BY <1>1, <2>1, <2>2, <2>3, StepKeepsInv DEF PullTestsClient, histVars
<1>2. CASE PullReadsClient(t)
  <2>1. conf[Shared].client = bound /\ bound \in Clients \cup {NoClient}
    BY DEF Inv, SharedInv, TypeOK
  <2>2. TypeOK'
    BY <1>2, <2>1 DEF Inv, TypeOK, PullReadsClient, Goto, PC, records, histVars
  <2>3. Own(t)
    BY <1>2 DEF Own, Inv, TypeOK, PullReadsClient, Goto, histVars
  <2>4. Fits(t)' /\ Done(t)'
    BY <1>2 DEF Inv, TypeOK, PullReadsClient, Goto, Fits, Done, At, Built, DryInstall, histVars
  <2>5. Seen(t)'
    BY <1>2, <2>1 DEF Inv, TypeOK, PullReadsClient, Goto, Seen, At, histVars
  <2>. QED BY <1>2, <2>2, <2>3, <2>4, <2>5, StepKeepsInv DEF PullReadsClient, histVars
<1>3. CASE Runs(t) /\ ~ SetsLimit(t)
  <2>1. CASE DryInstall(t)
    <3>1. on[t] = t
      BY <1>3, <2>1 DEF Inv, Fits, Runs, At, Built
    <3>2. Faked(conf[t], t) \in Configuration
      BY <3>1, ChangedConfigurationType, BindingAssumption
    <3>3. conf' = [conf EXCEPT ![t] = Faked(conf[t], t)]
      BY <1>3, <2>1, <3>1 DEF Runs, DryInstall
    <3>4. TypeOK'
      BY <1>3, <3>2, <3>3 DEF Inv, TypeOK, Runs, Goto, PC, records, histVars
    <3>5. Own(t) /\ conf'[Shared] = conf[Shared]
      BY <1>3, <3>3 DEF Own, Inv, TypeOK, Runs, Goto, histVars
    <3>6. conf'[t].ns = conf[t].ns /\ conf'[t].backend = "fake"
      BY <3>3 DEF Faked, Inv, TypeOK
    <3>7. Fits(t)' /\ Done(t)' /\ Seen(t)'
      BY <1>3, <2>1, <3>1, <3>6
      DEF Inv, TypeOK, Runs, Goto, Fits, Done, Seen, At, Built, DryInstall, histVars
    <3>. QED BY <1>3, <3>4, <3>5, <3>7, StepKeepsInv DEF Runs, histVars
  <2>2. CASE ~ DryInstall(t)
    <3>1. conf' = conf
      BY <1>3, <2>2 DEF Runs, DryInstall, SetsLimit
    <3>2. TypeOK'
      BY <1>3, <3>1 DEF Inv, TypeOK, Runs, Goto, PC, records, histVars
    <3>3. Own(t)
      BY <1>3, <3>1 DEF Own, Inv, TypeOK, Runs, Goto, histVars
    <3>4. conf[on[t]].backend = "live"
      BY <1>3 DEF Inv, Fits, Runs, At
    <3>5. Fits(t)' /\ Done(t)' /\ Seen(t)'
      BY <1>3, <2>2, <3>1, <3>4
      DEF Inv, TypeOK, Runs, Goto, Fits, Done, Seen, At, Built, DryInstall, histVars
    <3>. QED BY <1>3, <3>1, <3>2, <3>3, <3>5, StepKeepsInv DEF Runs, histVars
  <2>. QED BY <2>1, <2>2
<1>4. CASE Acts(t)
  <2>. DEFINE seen == [ns |-> conf[on[t]].ns, backend |-> conf[on[t]].backend,
                       limit |-> conf[on[t]].limit]
  <2>1. Reaches(t)
    BY <1>4 DEF Acts, Installs, Lists, Uninstalls, Updates
  <2>2. /\ seen \in [ns : Namespace, backend : {"live", "fake"}, limit : Limits]
        /\ seen.ns = call[t].ns /\ (seen.backend = "fake" <=> DryInstall(t))
    BY <2>1 DEF Reaches, At, Inv, Fits, Built, Configuration
  <2>3. acted' = [acted EXCEPT ![t] = seen] /\ UNCHANGED <<call, bound, overwritten>>
    BY <2>1 DEF Reaches
  <2>4. PICK c \in {"OK", "Failed"}, s \in [Place -> SUBSET Releases] : Return(t, c, s)
    BY <1>4, ActsReturns
  <2>5. RecordTypes'
    BY <1>4, ActsReturns
  <2>. HIDE DEF seen
  <2>6. /\ acted' \in [Callers -> [ns : Namespace, backend : {"live", "fake"}, limit : Limits]]
        /\ acted'[t] = seen
        /\ \A u \in Callers \ {t} : acted'[u] = acted[u]
    BY <2>2, <2>3 DEF Inv, TypeOK
  <2>. QED BY <2>2, <2>3, <2>4, <2>5, <2>6, ReturnStep DEF Code
<1>. QED BY <1>1, <1>2, <1>3, <1>4

(* A step of SharedStaysBound. *)
Bound ==
  LET k == conf[Shared]  k2 == conf'[Shared]
  IN /\ <<k2.ns, k2.backend, k2.store>> = <<k.ns, k.backend, k.store>>
     /\ k2.client # k.client => k2.client = bound' /\ pc' = pc
     /\ k2.caps \in {k.caps, "cluster"}

LEMMA SetClientStep ==
  ASSUME Inv, NEW c \in Clients \cup {NoClient}, SetConfigRegistryClient(c)
  PROVE  /\ Inv' /\ conf'[Shared] = WithClient(conf[Shared], bound') /\ pc' = pc
         /\ Bound
<1>. /\ Shared \in Place /\ conf[Shared] \in Configuration
     /\ \A t \in Callers : t \in Place /\ t # Shared
  BY BindingAssumption DEF Inv, TypeOK, Place
<1>1. WithClient(conf[Shared], c) \in Configuration
  BY ChangedConfigurationType, BindingAssumption
<1>2. /\ conf' \in [Place -> Configuration]
      /\ conf'[Shared] = WithClient(conf[Shared], c)
      /\ \A t \in Callers : conf'[t] = conf[t]
  BY <1>1 DEF SetConfigRegistryClient, Inv, TypeOK
<1>3. since' \in [Callers -> SUBSET (Clients \cup {NoClient})]
  BY DEF SetConfigRegistryClient, Inv, TypeOK
<1>4. TypeOK'
  BY <1>2, <1>3 DEF SetConfigRegistryClient, Inv, TypeOK, callVars, records
<1>5. SharedInv'
  BY <1>2 DEF SetConfigRegistryClient, Inv, TypeOK, Configuration, SharedInv, WithClient
<1>6. ASSUME NEW t \in Callers PROVE Fits(t)' /\ Done(t)' /\ Seen(t)'
  <2>1. /\ on[t] \in {Shared, t}
        /\ conf'[on[t]].ns = conf[on[t]].ns
        /\ conf'[on[t]].backend = conf[on[t]].backend
    BY <1>2 DEF WithClient, Configuration, Inv, Fits
  <2>2. Fits(t)' /\ Done(t)'
    BY <2>1 DEF SetConfigRegistryClient, Inv, Fits, Done, At, Built, DryInstall, callVars
  <2>3. Seen(t)'
    BY DEF SetConfigRegistryClient, Inv, Seen, At, callVars
  <2>. QED BY <2>2, <2>3
<1>7. Bound
  BY <1>2 DEF Bound, WithClient, Configuration, SetConfigRegistryClient, callVars
<1>. QED BY <1>2, <1>4, <1>5, <1>6, <1>7 DEF Inv, SetConfigRegistryClient, callVars

-----------------------------------------------------------------------------
(* No step breaks the invariant, or the binding of the shared configuration. *)
LEMMA NextStep ==
  ASSUME Inv, [Next]_vars
  PROVE  Inv' /\ Bound
<1>1. CASE \E t \in Callers : CallStep(t)
  <2>1. PICK t \in Callers : CallStep(t)
    BY <1>1
  <2>2. Inv' /\ (conf'[Shared] = conf[Shared] \/ SharedKept)
    <3>1. CASE \E a \in Call : Start(t, a)
      BY <3>1, StartStep
    <3>2. CASE Builds(t) \/ Fails(t)
      BY <3>2, BuildStep
    <3>3. CASE CachesCapabilities(t) \/ (Runs(t) /\ SetsLimit(t))
      BY <3>3, WriteStep
    <3>4. CASE PullTestsClient(t) \/ PullReadsClient(t) \/ (Runs(t) /\ ~ SetsLimit(t)) \/ Acts(t)
      BY <3>4, RunStep
    <3>. QED BY <2>1, <3>1, <3>2, <3>3, <3>4 DEF CallStep
  <2>. QED BY <2>2 DEF SharedKept, Bound
<1>2. CASE \E c \in Clients \cup {NoClient} : SetConfigRegistryClient(c)
  BY <1>2, SetClientStep
<1>3. CASE UNCHANGED vars
  <2>1. TypeOK' /\ conf' = conf
    BY <1>3 DEF Inv, TypeOK, vars, callVars, records, histVars
  <2>2. SharedInv'
    BY <1>3 DEF Inv, SharedInv, vars, histVars
  <2>3. ASSUME NEW t \in Callers PROVE Fits(t)' /\ Done(t)' /\ Seen(t)'
    BY <1>3 DEF Inv, Fits, Done, Seen, At, Built, DryInstall, vars, callVars, histVars
  <2>. QED BY <2>1, <2>2, <2>3 DEF Inv, Bound
<1>. QED BY <1>1, <1>2, <1>3 DEF Next, CallStep

LEMMA InvHolds == Spec => []Inv
<1>1. Inv /\ [Next]_vars => Inv'
  BY NextStep
<1>. QED BY InitInv, <1>1, PTL DEF Spec

(* Every variable keeps its type, for any number of callers and clients.   *)
THEOREM BindingTypeCorrect == Spec => []TypeOK
<1>1. Inv => TypeOK
  BY DEF Inv
<1>. QED BY <1>1, InvHolds, PTL

(* A successful call has acted in its namespace and on its backend,        *)
(* whatever else ran on the handle (DESIGN.md 6).                          *)
THEOREM ActionsRunWhereAsked == Spec => []ActsWhereAsked
<1>1. Inv => ActsWhereAsked
  BY DEF Inv, Done, ActsWhereAsked, DryInstall
<1>. QED BY <1>1, InvHolds, PTL

(* A pull uses a client that was bound while its call ran, or none.        *)
THEOREM PullClientWasBound == Spec => []PullUsesBoundClient
<1>1. Inv => PullUsesBoundClient
  BY DEF Inv, Seen, PullUsesBoundClient
<1>. QED BY <1>1, InvHolds, PTL

(* No action moves the shared configuration to another namespace, backend  *)
(* or storage; its client changes by helm_config_set_registry_client only  *)
(* (DESIGN.md 6). Its limit and capabilities are left out: actions do      *)
(* write them.                                                             *)
THEOREM SharedConfigurationStaysBound == Spec => SharedStaysBound
<1>1. Inv /\ [Next]_vars => [Bound]_vars
  BY NextStep
<1>. QED BY <1>1, InvHolds, PTL DEF Spec, SharedStaysBound, Bound

-----------------------------------------------------------------------------
(* The limit a call has set, and nobody since, is the one that is there, and *)
(* what it has acted with.                                                   *)
Set(t) ==
  t \notin overwritten /\ SetsLimit(t) =>
    /\ At(t, "act") => conf[on[t]].limit = call[t].max
    /\ At(t, "idle") /\ code[t] = "OK" => acted[t].limit = call[t].max

(* A step that leaves the limits of others alone and t not at its own.      *)
LEMMA OthersKeepLimits ==
  ASSUME Inv, NEW t \in Callers, NEW u \in Callers \ {t}, Own(t), Set(u),
         overwritten' = overwritten, conf'[Shared].limit = conf[Shared].limit
  PROVE  Set(u)'
<1>1. on[u] \in {Shared, u}
  BY DEF Inv, Fits
<1>2. conf'[on[u]].limit = conf[on[u]].limit
  BY <1>1 DEF Own
<1>. QED BY <1>2 DEF Set, SetsLimit, Own, At

(* Setting a limit tells those who have set theirs in the same place.       *)
LEMMA RunsKeepsLimits ==
  ASSUME Inv, NEW t \in Callers, Runs(t), SetsLimit(t), \A u \in Callers : Set(u)
  PROVE  \A u \in Callers : Set(u)'
<1>1. /\ Own(t) /\ Callers \subseteq Place /\ Shared \in Place /\ on[t] \in {Shared, t}
      /\ conf[on[t]] \in Configuration /\ t # Shared
  BY WriteStep, BindingAssumption DEF Inv, TypeOK, Place, Fits
<1>2. /\ conf' = [conf EXCEPT ![on[t]] = WithLimit(conf[on[t]], call[t].max)]
      /\ overwritten' = (overwritten \ {t}) \cup SetAlready(t)
      /\ pc' = [pc EXCEPT ![t] = "act"]
      /\ UNCHANGED <<call, on, code, acted>>
  BY DEF Runs, SetsLimit, Goto
<1>3. Set(t)'
  <2>1. conf'[on[t]].limit = call[t].max
    BY <1>1, <1>2 DEF WithLimit, Configuration, Inv, TypeOK
  <2>. QED BY <1>2, <2>1 DEF Set, SetsLimit, At, Inv, TypeOK
<1>4. ASSUME NEW u \in Callers \ {t} PROVE Set(u)'
  <2>1. on[u] \in {Shared, u} /\ on[u] \in Place
    BY <1>1 DEF Inv, Fits
  <2>2. CASE on[u] = on[t]
    BY <1>1, <1>2, <2>2 DEF Set, SetsLimit, SetAlready, At, Own
  <2>3. CASE on[u] # on[t]
    <3>1. conf'[on[u]] = conf[on[u]]
      BY <1>2, <2>1, <2>3 DEF Inv, TypeOK
    <3>. QED BY <1>1, <1>2, <3>1 DEF Set, SetsLimit, At, Own
  <2>. QED BY <2>2, <2>3
<1>. QED BY <1>3, <1>4

LEMMA LimitsStep ==
  ASSUME Inv, \A u \in Callers : Set(u), [Next]_vars
  PROVE  \A u \in Callers : Set(u)'
<1>1. ASSUME NEW t \in Callers, CallStep(t), ~ (Runs(t) /\ SetsLimit(t))
      PROVE  \A u \in Callers : Set(u)'
  <2>1. Own(t) /\ conf'[Shared].limit = conf[Shared].limit
    <3>1. CASE CachesCapabilities(t)
      <4>1. /\ Own(t) /\ Shared \in Place /\ on[t] \in Place
            /\ conf' = [conf EXCEPT ![on[t]] = WithCapabilities(conf[on[t]])]
        BY <3>1, WriteStep DEF CachesCapabilities, Inv, TypeOK, Place
      <4>. QED BY <4>1 DEF WithCapabilities, Configuration, Inv, TypeOK
    <3>2. CASE ~ CachesCapabilities(t)
      BY <1>1, <3>2, StartStep, BuildStep, RunStep DEF CallStep
    <3>. QED BY <3>1, <3>2
  <2>2. overwritten' = overwritten
    BY <1>1
    DEF CallStep, Start, Builds, NewInstall, NewUpgrade, ListReleases, OtherAction, PullTestsClient,
        PullReadsClient, CachesCapabilities, Runs, Acts, Installs, Lists, Uninstalls, Updates,
        Reaches, Fails, histVars
  <2>3. ASSUME NEW u \in Callers \ {t} PROVE Set(u)'
    BY <2>1, <2>2, OthersKeepLimits
  <2>4. Set(t)'
    <3>1. CASE \E a \in Call : Start(t, a)
      BY <3>1 DEF Start, Goto, Set, At, Inv, TypeOK
    <3>2. CASE \E c \in {"Failed", "Refused"} : Return(t, c, stored)
      BY <3>2 DEF Return, Goto, Set, At, Inv, TypeOK
    <3>3. CASE \E p \in {Shared, t}, l \in {"chart", "run"} : BuildsOn(t, p, l)
      BY <3>3 DEF BuildsOn, Goto, Set, At, Inv, TypeOK
    <3>4. CASE PullTestsClient(t) \/ PullReadsClient(t)
      BY <3>4 DEF PullTestsClient, PullReadsClient, Goto, Set, At, Inv, TypeOK
    <3>5. CASE CachesCapabilities(t)
      BY <3>5 DEF CachesCapabilities, callVars, Set, At
    <3>6. CASE Runs(t)
      BY <1>1, <3>6 DEF Runs, Set, SetsLimit
    <3>7. CASE Acts(t)
      <4>1. /\ At(t, "act") /\ call' = call
            /\ acted'[t].limit = conf[on[t]].limit
        BY <3>7 DEF Acts, Installs, Lists, Uninstalls, Updates, Reaches, Inv, TypeOK
      <4>2. pc'[t] = "idle"
        BY <3>7, ActsReturns DEF Return, Goto, Inv, TypeOK
      <4>. QED BY <2>2, <4>1, <4>2 DEF Set, SetsLimit, At
    <3>8. CASE Builds(t) \/ Fails(t)
      <4>1. \/ \E c \in {"Failed", "Refused"} : Return(t, c, stored)
            \/ \E p \in {Shared, t}, l \in {"chart", "run"} : BuildsOn(t, p, l)
        <5>1. CASE NewInstall(t)
          BY <5>1 DEF NewInstall
        <5>2. CASE NewUpgrade(t)
          BY <5>2 DEF NewUpgrade
        <5>3. CASE ListReleases(t)
          BY <5>3 DEF ListReleases
        <5>4. CASE OtherAction(t)
          BY <5>4 DEF OtherAction
        <5>5. CASE Fails(t)
          BY <5>5 DEF Fails
        <5>. QED BY <3>8, <5>1, <5>2, <5>3, <5>4, <5>5 DEF Builds
      <4>. QED BY <3>2, <3>3, <4>1
    <3>. QED BY <1>1, <3>1, <3>4, <3>5, <3>6, <3>7, <3>8 DEF CallStep
  <2>. QED BY <2>3, <2>4
<1>2. ASSUME NEW c \in Clients \cup {NoClient}, SetConfigRegistryClient(c)
      PROVE  \A u \in Callers : Set(u)'
  <2>1. ASSUME NEW u \in Callers PROVE conf'[on[u]].limit = conf[on[u]].limit
    BY <1>2, BindingAssumption
    DEF SetConfigRegistryClient, WithClient, Configuration, Inv, TypeOK, Fits, Place
  <2>. QED BY <1>2, <2>1 DEF SetConfigRegistryClient, callVars, Set, SetsLimit, At
<1>3. CASE UNCHANGED vars
  BY <1>3 DEF vars, callVars, histVars, Set, SetsLimit, At
<1>. QED BY <1>1, <1>2, <1>3, RunsKeepsLimits DEF Next, CallStep

(* An upgrade or a rollback trims to its own max_history, unless another    *)
(* wrote a limit between its write and its use (API.md:464), for any number *)
(* of calls.                                                                *)
THEOREM LimitsAreTheirOwn == Spec => []KeepsOwnLimit
<1>1. Init => \A u \in Callers : Set(u)
  BY DEF Init, Set, At
<1>2. Inv /\ (\A u \in Callers : Set(u)) /\ [Next]_vars => (\A u \in Callers : Set(u))'
  BY LimitsStep
<1>3. (\A u \in Callers : Set(u)) => KeepsOwnLimit
  BY DEF Set, KeepsOwnLimit
<1>. QED BY <1>1, <1>2, <1>3, InvHolds, PTL DEF Spec

-----------------------------------------------------------------------------
(* The records, under a storage driver that keeps them in one place: every *)
(* live configuration uses it, a faked one has its own, and what is        *)
(* installed is on record.                                                 *)
Listed(t) ==
  At(t, "idle") /\ code[t] = "OK" /\ call[t].op = "list" =>
    kept[t] \cap Scope(call[t].ns) \subseteq found[t]

OneStore(p) == conf[p].store = IF conf[p].backend = "live" THEN Shared ELSE p

RecInv ==
  /\ installed \subseteq stored[Shared]
  /\ \A p \in Place : OneStore(p)
  /\ \A t \in Callers : kept[t] \subseteq installed /\ Listed(t)

(* What a step of another call leaves of the records of u. *)
LEMMA OthersKeepRecords ==
  ASSUME Inv, RecInv, NEW t \in Callers, NEW u \in Callers \ {t}, Own(t),
         found'[u] = found[u], kept'[u] \subseteq kept[u]
  PROVE  Listed(u)'
PROOF BY DEF RecInv, Listed, Own, At

(* A call that ends otherwise than as a successful list. *)
LEMMA ReturnKeepsRecords ==
  ASSUME Inv, RecInv, Driver = "cluster", NEW t \in Callers, NEW c, NEW s \in [Place -> SUBSET Releases],
         Return(t, c, s), Own(t), conf'[Shared] = conf[Shared],
         installed' \subseteq s[Shared],
         \A u \in Callers : kept'[u] \subseteq installed' /\ kept'[u] \subseteq kept[u],
         \A u \in Callers \ {t} : found'[u] = found[u],
         Listed(t)'
  PROVE  RecInv'
<1>1. t # Shared /\ t \in Place /\ Shared \in Place
  BY BindingAssumption DEF Place
<1>2. stored'[Shared] = s[Shared]
  BY <1>1 DEF Return
<1>3. conf' = [conf EXCEPT ![t] = NewConfiguration(Home, t)]
  BY DEF Return
<1>4. ASSUME NEW p \in Place PROVE OneStore(p)'
  BY <1>1, <1>3 DEF OneStore, RecInv, NewConfiguration, Inv, TypeOK
<1>5. ASSUME NEW u \in Callers PROVE Listed(u)'
  BY OthersKeepRecords
<1>. QED BY <1>2, <1>4, <1>5 DEF RecInv

LEMMA BuildKeepsRecords ==
  ASSUME Inv, RecInv, Driver = "cluster", NEW t \in Callers, Builds(t) \/ Fails(t)
  PROVE  RecInv'
<1>1. Own(t) /\ conf'[Shared] = conf[Shared]
  BY BuildStep
<1>2. CASE \E c \in {"Failed", "Refused"} :
             Return(t, c, stored) /\ UNCHANGED <<call, found, installed, kept>>
  <2>1. PICK c \in {"Failed", "Refused"} :
               Return(t, c, stored) /\ UNCHANGED <<call, found, installed, kept>>
    BY <1>2
  <2>2. Listed(t)'
    BY <2>1 DEF Listed, Return, Inv, TypeOK
  <2>. QED BY <1>1, <2>1, <2>2, ReturnKeepsRecords DEF RecInv, Inv, TypeOK
<1>3. CASE \E p \in {Shared, t}, l \in {"chart", "run"} :
             /\ BuildsOn(t, p, l) /\ UNCHANGED call
             /\ \/ conf' = conf
                \/ conf' = [conf EXCEPT ![t] = conf[Shared]]
                \/ \E n \in Namespace : conf' = [conf EXCEPT ![t] = NewConfiguration(n, t)]
  <2>1. PICK p \in {Shared, t}, l \in {"chart", "run"} :
             /\ BuildsOn(t, p, l) /\ UNCHANGED call
             /\ \/ conf' = conf
                \/ conf' = [conf EXCEPT ![t] = conf[Shared]]
                \/ \E n \in Namespace : conf' = [conf EXCEPT ![t] = NewConfiguration(n, t)]
    BY <1>3
  <2>2. conf[Shared].backend = "live" /\ conf[Shared].store = Shared
    BY DEF Inv, SharedInv
  <2>3. \A n : NewConfiguration(n, t).backend = "live" /\ NewConfiguration(n, t).store = Shared
    BY DEF NewConfiguration
  <2>4. conf' = conf \/ \E k : k.backend = "live" /\ k.store = Shared /\ conf' = [conf EXCEPT ![t] = k]
    BY <2>1, <2>2, <2>3
  <2>5. ASSUME NEW q \in Place PROVE OneStore(q)'
    BY <2>4 DEF OneStore, RecInv, Inv, TypeOK
  <2>6. ASSUME NEW u \in Callers PROVE Listed(u)'
    <3>1. CASE u = t
      BY <2>1, <3>1 DEF BuildsOn, Goto, Listed, At, Inv, TypeOK
    <3>2. CASE u # t
      BY <1>1, <2>1, <3>2, OthersKeepRecords DEF BuildsOn, records
    <3>. QED BY <3>1, <3>2
  <2>. QED BY <2>1, <2>5, <2>6 DEF RecInv, BuildsOn, records
<1>. HIDE DEF RecInv
<1>4. CASE NewInstall(t)
  <2>1. call[t].ns \in Namespace
    BY CallFields DEF Inv, TypeOK
  <2>2. /\ UNCHANGED call
        /\ \/ BuildsOn(t, Shared, "chart") /\ UNCHANGED conf
           \/ /\ BuildsOn(t, t, "chart")
              /\ conf' = [conf EXCEPT ![t] = IF call[t].ns = Home THEN conf[Shared]
                                             ELSE NewConfiguration(call[t].ns, t)]
    BY <1>4 DEF NewInstall
  <2>. QED BY <1>3, <2>1, <2>2
<1>5. CASE NewUpgrade(t)
  BY <1>2, <1>3, <1>5 DEF NewUpgrade
<1>6. CASE ListReleases(t)
  BY <1>3, <1>6, HomeIsNamespace DEF ListReleases
<1>7. CASE OtherAction(t)
  BY <1>3, <1>7 DEF OtherAction
<1>8. CASE Fails(t)
  BY <1>2, <1>8 DEF Fails
<1>. QED BY <1>4, <1>5, <1>6, <1>7, <1>8 DEF Builds

LEMMA ActsKeepsRecords ==
  ASSUME Inv, RecInv, Driver = "cluster", NEW t \in Callers, Acts(t)
  PROVE  RecInv'
<1>. DEFINE k == conf[on[t]]
<1>1. Own(t) /\ conf'[Shared] = conf[Shared]
  BY RunStep
<1>2. /\ on[t] \in {Shared, t} /\ At(t, "act") /\ k.ns = call[t].ns
      /\ (k.backend = "fake" <=> DryInstall(t)) /\ k.backend \in {"live", "fake"}
      /\ k.store = IF DryInstall(t) THEN t ELSE Shared
      /\ call' = call /\ t # Shared /\ Shared \in Place /\ t \in Place
      /\ stored \in [Place -> SUBSET Releases]
  <2>1. At(t, "act") /\ call' = call
    BY DEF Acts, Installs, Lists, Uninstalls, Updates, Reaches
  <2>2. /\ on[t] \in {Shared, t} /\ k.ns = call[t].ns /\ (k.backend = "fake" <=> DryInstall(t))
        /\ (on[t] = Shared => ~ DryInstall(t))
    BY <2>1 DEF Inv, Fits, Built, At
  <2>3. t # Shared /\ Shared \in Place /\ t \in Place
    BY BindingAssumption DEF Place
  <2>4. conf[on[t]] \in Configuration
    BY <2>2, <2>3 DEF Inv, TypeOK
  <2>5. OneStore(on[t])
    BY <2>2, <2>3 DEF RecInv
  <2>. QED BY <2>1, <2>2, <2>3, <2>4, <2>5 DEF OneStore, Configuration, Inv, TypeOK
<1>3. CASE Installs(t)
  <2>. DEFINE put == [stored EXCEPT ![k.store] = @ \cup {k.ns}]
  <2>1. call[t].op = "install" /\ call[t].ns \in Releases
    BY <1>2, <1>3 DEF Installs, Inv, TypeOK, Call
  <2>2. /\ put \in [Place -> SUBSET Releases] /\ stored[Shared] \subseteq put[Shared]
        /\ (~ call[t].dry => call[t].ns \in put[Shared])
    BY <1>2, <2>1 DEF DryInstall
  <2>3. PICK c \in {"OK", "Failed"}, s \in {stored, put} :
          /\ Return(t, c, s) /\ UNCHANGED <<found, kept>>
          /\ \/ installed' = installed
             \/ s = put /\ ~ call[t].dry /\ installed' = installed \cup {call[t].ns}
    BY <1>3 DEF Installs
  <2>4. Listed(t)'
    BY <1>2, <2>1 DEF Listed
  <2>5. installed' \subseteq s[Shared] /\ installed \subseteq installed'
    BY <2>2, <2>3 DEF RecInv
  <2>6. s \in [Place -> SUBSET Releases]
    BY <1>2, <2>2, <2>3
  <2>7. \A u \in Callers : kept'[u] \subseteq installed' /\ kept'[u] \subseteq kept[u]
    BY <2>3, <2>5 DEF RecInv
  <2>. HIDE DEF put
  <2>. QED BY <1>1, <2>3, <2>4, <2>5, <2>6, <2>7, ReturnKeepsRecords
<1>4. CASE Lists(t)
  <2>1. PICK c : Return(t, c, stored) /\ UNCHANGED <<installed, kept>>
    BY <1>4 DEF Lists
  <2>2. Listed(t)'
    <3>1. CASE found' = [found EXCEPT ![t] = stored[k.store] \cap Scope(k.ns)]
      <4>1. k.store = Shared
        BY <1>2, <1>4 DEF Lists, DryInstall
      <4>2. kept[t] \subseteq stored[Shared]
        BY DEF RecInv
      <4>3. found'[t] = stored[Shared] \cap Scope(call[t].ns)
        BY <1>2, <3>1, <4>1 DEF Inv, TypeOK
      <4>. QED BY <1>2, <2>1, <4>2, <4>3 DEF Listed
    <3>2. CASE Return(t, "Failed", stored)
      BY <3>2 DEF Listed, Return, Inv, TypeOK
    <3>. QED BY <1>4, <3>1, <3>2 DEF Lists
  <2>3. \A u \in Callers \ {t} : found'[u] = found[u]
    BY <1>4 DEF Lists, Inv, TypeOK
  <2>4. /\ installed' \subseteq stored[Shared]
        /\ \A u \in Callers : kept'[u] \subseteq installed' /\ kept'[u] \subseteq kept[u]
    BY <2>1 DEF RecInv
  <2>. QED BY <1>1, <1>2, <2>1, <2>2, <2>3, <2>4, ReturnKeepsRecords
<1>5. CASE Uninstalls(t)
  <2>. DEFINE removed == [stored EXCEPT ![k.store] = @ \ {k.ns}]
  <2>1. call[t].op = "uninstall" /\ k.store = Shared
    BY <1>2, <1>5 DEF Uninstalls, DryInstall
  <2>2. PICK c \in {"OK", "Failed"}, s \in {stored, removed} : Return(t, c, s) /\ UNCHANGED found
    BY <1>5 DEF Uninstalls
  <2>3. /\ installed' = installed \ {k.ns} /\ kept' = [u \in Callers |-> kept[u] \ {k.ns}]
    BY <1>5 DEF Uninstalls
  <2>4. /\ removed \in [Place -> SUBSET Releases]
        /\ removed[Shared] = stored[Shared] \ {k.ns}
    BY <1>2, <2>1
  <2>5. installed' \subseteq s[Shared]
    BY <2>2, <2>3, <2>4 DEF RecInv
  <2>6. \A u \in Callers : kept'[u] \subseteq installed' /\ kept'[u] \subseteq kept[u]
    BY <2>3 DEF RecInv
  <2>7. Listed(t)'
    BY <1>2, <2>1 DEF Listed
  <2>8. s \in [Place -> SUBSET Releases]
    BY <1>2, <2>2, <2>4
  <2>. HIDE DEF removed
  <2>. QED BY <1>1, <2>2, <2>5, <2>6, <2>7, <2>8, ReturnKeepsRecords
<1>6. CASE Updates(t)
  <2>1. PICK c : Return(t, c, stored) /\ UNCHANGED <<found, installed, kept>>
    BY <1>6 DEF Updates
  <2>2. Listed(t)'
    BY <1>2, <1>6 DEF Updates, Listed
  <2>3. /\ installed' \subseteq stored[Shared]
        /\ \A u \in Callers : kept'[u] \subseteq installed' /\ kept'[u] \subseteq kept[u]
    BY <2>1 DEF RecInv
  <2>. QED BY <1>1, <1>2, <2>1, <2>2, <2>3, ReturnKeepsRecords
<1>. QED BY <1>3, <1>4, <1>5, <1>6 DEF Acts

LEMMA RecordsStep ==
  ASSUME Inv, RecInv, Driver = "cluster", [Next]_vars
  PROVE  RecInv'
<1>1. ASSUME NEW t \in Callers, NEW a \in Call, Start(t, a) PROVE RecInv'
  <2>1. Own(t) /\ conf' = conf /\ stored' = stored /\ installed' = installed
    BY <1>1, StartStep DEF Start
  <2>2. /\ kept' = [kept EXCEPT ![t] = IF a.op = "list" THEN installed ELSE {}]
        /\ found' = [found EXCEPT ![t] = {}] /\ pc' = [pc EXCEPT ![t] = "build"]
    BY <1>1 DEF Start, Goto
  <2>3. ASSUME NEW u \in Callers PROVE kept'[u] \subseteq installed' /\ Listed(u)'
    <3>1. CASE u = t
      BY <2>1, <2>2, <3>1 DEF Listed, At, Inv, TypeOK
    <3>2. CASE u # t
      BY <2>1, <2>2, <3>2, OthersKeepRecords DEF RecInv, Inv, TypeOK
    <3>. QED BY <3>1, <3>2
  <2>. QED BY <2>1, <2>3 DEF RecInv, OneStore
<1>2. ASSUME NEW t \in Callers,
             PullTestsClient(t) \/ PullReadsClient(t) \/ Runs(t) \/ CachesCapabilities(t)
      PROVE  RecInv'
  <2>1. Own(t) /\ UNCHANGED records /\ pc' \in [Callers -> PC] /\ ~ At(t, "idle")'
    <3>1. Own(t) /\ Inv'
      BY <1>2, RunStep, WriteStep
    <3>. QED
      BY <1>2, <3>1
      DEF PullTestsClient, PullReadsClient, Runs, CachesCapabilities, callVars, Goto, At, Inv, TypeOK
  <2>2. ASSUME NEW u \in Callers PROVE Listed(u)'
    BY <2>1, OthersKeepRecords DEF records, Listed
  <2>3. t \in Place /\ conf[t] \in Configuration /\ conf \in [Place -> Configuration]
    BY DEF Inv, TypeOK, Place
  <2>4. Faked(conf[t], t).backend = "fake" /\ Faked(conf[t], t).store = t
    BY <2>3 DEF Faked, Configuration
  <2>5. ASSUME NEW p \in Place PROVE OneStore(p)'
    <3>1. CASE CachesCapabilities(t) \/ (Runs(t) /\ SetsLimit(t))
      BY <3>1, WriteStep DEF OneStore, RecInv
    <3>2. CASE PullTestsClient(t) \/ PullReadsClient(t) \/ (Runs(t) /\ ~ SetsLimit(t))
      <4>1. conf' = conf \/ conf' = [conf EXCEPT ![t] = Faked(conf[t], t)]
        BY <3>2
        DEF PullTestsClient, PullReadsClient, Runs, SetsLimit, Inv, Fits, At, Built, DryInstall
      <4>. QED BY <2>3, <2>4, <4>1 DEF OneStore, RecInv
    <3>. QED BY <1>2, <3>1, <3>2
  <2>. QED BY <2>1, <2>2, <2>5 DEF RecInv, records
<1>3. ASSUME NEW c \in Clients \cup {NoClient}, SetConfigRegistryClient(c) PROVE RecInv'
  <2>1. UNCHANGED <<records, pc, code, call>>
    BY <1>3 DEF SetConfigRegistryClient, callVars
  <2>2. ASSUME NEW p \in Place PROVE OneStore(p)'
    BY <1>3 DEF SetConfigRegistryClient, OneStore, RecInv, WithClient, Inv, TypeOK, Configuration
  <2>. QED BY <2>1, <2>2 DEF RecInv, Listed, At, records
<1>4. CASE UNCHANGED vars
  BY <1>4 DEF vars, callVars, records, RecInv, OneStore, Listed, At
<1>. QED BY <1>1, <1>2, <1>3, <1>4, BuildKeepsRecords, ActsKeepsRecords DEF Next

(* Whatever calls run meanwhile, a list of one or of all namespaces shows  *)
(* what was installed and stood there throughout, if the storage driver is *)
(* one outside of the process (DESIGN.md 6, API.md:534-536).               *)
THEOREM InstalledReleasesAreListed ==
  ASSUME Driver = "cluster"
  PROVE  Spec => []ListsWhatIsInstalled
<1>1. Init => RecInv
  <2>1. ASSUME Init PROVE RecInv
    BY <2>1 DEF Init, RecInv, OneStore, NewConfiguration, Listed, At
  <2>. QED BY <2>1
<1>2. Inv /\ RecInv /\ [Next]_vars => RecInv'
  BY RecordsStep
<1>3. RecInv => ListsWhatIsInstalled
  BY DEF RecInv, Listed, ListsWhatIsInstalled
<1>. QED BY <1>1, <1>2, <1>3, InvHolds, PTL DEF Spec
=============================================================================
