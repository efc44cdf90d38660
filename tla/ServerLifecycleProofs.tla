------------------------ MODULE ServerLifecycleProofs ------------------------
(***************************************************************************)
(* Proofs about ServerLifecycle, for any number of data sources with any   *)
(* pools and any connections.                                              *)
(***************************************************************************)
EXTENDS ServerLifecycleInv, TLAPS

\* The distinct pools of a source are those of the roles that have their own.
LEMMA OwnedPools ==
    ASSUME NEW s \in Sources, HandleInv(s)
    PROVE  Owned(s) = {r \in Roles : Has(s, r)}
  BY DEF HandleInv, Owned, Has, Empty, Roles

\* What the invariant says of a source holds on while its handles, its pools
\* and the registry are left alone and nothing begins or ends to be opened.
LEMMA SameSource ==
    ASSUME NEW s \in Sources, HandleInv(s), PoolInv(s), SourceInv(s),
           UNCHANGED <<startVars, poolVars>>,
           stage' = stage \/ (stage # "opening" /\ stage' # "opening")
    PROVE  HandleInv(s)' /\ PoolInv(s)' /\ SourceInv(s)'
<1>1. HandleInv(s)'
  BY DEF HandleInv, Has, Empty, startVars
<1>2. PoolInv(s)'
  BY DEF PoolInv, Has, startVars, poolVars
<1>3. SourceInv(s)'
  BY DEF SourceInv, Complete, Has, Empty, Opening, startVars, poolVars
<1>4. QED
  BY <1>1, <1>2, <1>3

\* Source.Close closes every open pool of the source, once.
LEMMA ClosingASource ==
    ASSUME TypeOK, NEW s \in Sources, HandleInv(s), PoolInv(s), s \notin closed,
           CloseSource(s), UNCHANGED handle
    PROVE  /\ PoolInv(s)'
           /\ pool' \in [Sources -> [Roles -> {"none", "open", "closed"}]]
           /\ closes' \in [Sources -> [Roles -> Nat]]
           /\ \A t \in Sources : t # s => pool'[t] = pool[t] /\ closes'[t] = closes[t]
           /\ closed' = closed \cup {s}
<1>1. \A r \in Roles : pool'[s][r] = IF Has(s, r) THEN "closed" ELSE pool[s][r]
  BY OwnedPools DEF CloseSource, TypeOK
<1>2. \A r \in Roles : closes'[s][r] = IF Has(s, r) THEN closes[s][r] + 1 ELSE closes[s][r]
  BY OwnedPools DEF CloseSource, TypeOK
<1>3. pool' \in [Sources -> [Roles -> {"none", "open", "closed"}]]
  BY DEF CloseSource, TypeOK
<1>4. closes' \in [Sources -> [Roles -> Nat]]
  BY DEF CloseSource, TypeOK
<1>5. PoolInv(s)'
  BY <1>1, <1>2 DEF PoolInv, CloseSource
<1>6. QED
  BY <1>3, <1>4, <1>5 DEF CloseSource

\* The invariant is inductive: one case per action of the process and of its
\* signal listener.
THEOREM Inductive == IInv /\ [Next]_vars => IInv'
<1> SUFFICES ASSUME IInv, [Next]_vars PROVE IInv'
  OBVIOUS
<1> USE DEF IInv
<1>1. ASSUME OpenPool PROVE IInv'
  <2>1. TypeOK'
    BY <1>1, OwnMonitorAssumption DEF OpenPool, startVars, listenVars,
       TypeOK, Roles, After
  <2>2. ASSUME NEW t \in Sources PROVE HandleInv(t)'
    <3>1. CASE t = current
      BY <1>1, OwnMonitorAssumption, <3>1 DEF OpenPool, startVars, poolVars,
         listenVars, HandleInv, Has, Empty, OpeningInv, Roles
    <3>2. CASE t # current
      BY <1>1, OwnMonitorAssumption, <3>2 DEF OpenPool, startVars, poolVars,
         HandleInv, Has, Empty
    <3>3. QED
      BY <3>1, <3>2
  <2>3. ASSUME NEW t \in Sources PROVE PoolInv(t)'
    <3>1. CASE t = current
      BY <1>1, OwnMonitorAssumption, <3>1 DEF OpenPool, startVars, poolVars,
         listenVars, PoolInv, Has, OpeningInv, TypeOK, Roles
    <3>2. CASE t # current
      BY <1>1, OwnMonitorAssumption, <3>2 DEF OpenPool, startVars, PoolInv,
         Has
    <3>3. QED
      BY <3>1, <3>2
  <2>4. ASSUME NEW t \in Sources PROVE SourceInv(t)'
    <3>1. CASE t = current
      BY <1>1, OwnMonitorAssumption, <3>1 DEF OpenPool, startVars, poolVars,
         listenVars, SourceInv, Complete, Needed, Has, Empty, Opening,
         Sources
    <3>2. CASE t # current
      BY <1>1, OwnMonitorAssumption, <3>2 DEF OpenPool, startVars, poolVars,
         listenVars, SourceInv, Complete, Needed, Has, Empty, Opening
    <3>3. QED
      BY <3>1, <3>2
  <2>5. OpeningInv'
    <3>1. CASE at = "read"
      BY <1>1, OwnMonitorAssumption, <3>1 DEF OpenPool, startVars, poolVars,
         listenVars, OpeningInv, SourceInv, Complete, Needed, Has, TypeOK,
         After
    <3>2. CASE at = "write"
      BY <1>1, OwnMonitorAssumption, <3>2 DEF OpenPool, startVars, poolVars,
         listenVars, OpeningInv, SourceInv, Complete, Needed, Has, TypeOK,
         After
    <3>3. CASE at = "monitor"
      BY <1>1, OwnMonitorAssumption, <3>3 DEF OpenPool, startVars, poolVars,
         listenVars, OpeningInv, SourceInv, Complete, Needed, Has, TypeOK,
         After
    <3>4. QED
      BY <3>1, <3>2, <3>3, <1>1 DEF OpenPool, Roles
  <2>6. StageInv'
    BY <1>1, OwnMonitorAssumption DEF OpenPool, startVars, poolVars,
       listenVars, StageInv
  <2>7. ListenerInv'
    BY <1>1 DEF OpenPool, listenVars, ListenerInv
  <2>8. ConnInv'
    BY <1>1 DEF OpenPool, startVars, listenVars, ConnInv
  <2>9. QED
    BY <2>1, <2>2, <2>3, <2>4, <2>5, <2>6, <2>7, <2>8
<1>2. ASSUME SharePool PROVE IInv'
  <2>1. TypeOK'
    BY <1>2, OwnMonitorAssumption DEF SharePool, startVars, poolVars,
       listenVars, TypeOK, Roles
  <2>2. ASSUME NEW t \in Sources PROVE HandleInv(t)'
    <3>1. CASE t = current
      BY <1>2, OwnMonitorAssumption, <3>1 DEF SharePool, startVars,
         poolVars, listenVars, HandleInv, Has, OpeningInv
    <3>2. CASE t # current
      BY <1>2, OwnMonitorAssumption, <3>2 DEF SharePool, startVars,
         poolVars, HandleInv, Has, Empty
    <3>3. QED
      BY <3>1, <3>2
  <2>3. ASSUME NEW t \in Sources PROVE PoolInv(t)'
    <3>1. CASE t = current
      BY <1>2, OwnMonitorAssumption, <3>1 DEF SharePool, startVars,
         poolVars, listenVars, PoolInv, Has, OpeningInv
    <3>2. CASE t # current
      BY <1>2, OwnMonitorAssumption, <3>2 DEF SharePool, startVars,
         poolVars, PoolInv, Has
    <3>3. QED
      BY <3>1, <3>2
  <2>4. ASSUME NEW t \in Sources PROVE SourceInv(t)'
    <3>1. CASE t = current
      BY <1>2, OwnMonitorAssumption, <3>1 DEF SharePool, startVars,
         poolVars, listenVars, SourceInv, Complete, Needed, Has, Empty,
         Opening, Sources
    <3>2. CASE t # current
      BY <1>2, OwnMonitorAssumption, <3>2 DEF SharePool, startVars,
         poolVars, listenVars, SourceInv, Complete, Needed, Has, Empty,
         Opening
    <3>3. QED
      BY <3>1, <3>2
  <2>5. OpeningInv'
    BY <1>2, OwnMonitorAssumption DEF SharePool, startVars, poolVars,
       listenVars, OpeningInv, SourceInv, Complete, Needed, Has
  <2>6. StageInv'
    BY <1>2, OwnMonitorAssumption DEF SharePool, startVars, poolVars,
       listenVars, StageInv
  <2>7. ListenerInv'
    BY <1>2 DEF SharePool, listenVars, ListenerInv
  <2>8. ConnInv'
    BY <1>2 DEF SharePool, startVars, listenVars, ConnInv
  <2>9. QED
    BY <2>1, <2>2, <2>3, <2>4, <2>5, <2>6, <2>7, <2>8
<1>3. ASSUME PingFails PROVE IInv'
  <2>1. TypeOK'
    BY <1>3 DEF PingFails, startVars, listenVars, TypeOK
  <2>2. ASSUME NEW t \in Sources PROVE HandleInv(t)'
    <3>1. CASE t = current
      BY <1>3, <3>1 DEF PingFails, startVars, poolVars, listenVars,
         HandleInv, Has, Empty
    <3>2. CASE t # current
      BY <1>3, <3>2 DEF PingFails, startVars, poolVars, HandleInv, Has,
         Empty
    <3>3. QED
      BY <3>1, <3>2
  <2>3. ASSUME NEW t \in Sources PROVE PoolInv(t)'
    <3>1. CASE t = current
      BY <1>3, <3>1 DEF PingFails, startVars, poolVars, listenVars, PoolInv,
         Has, OpeningInv, TypeOK, Roles
    <3>2. CASE t # current
      BY <1>3, <3>2 DEF PingFails, startVars, PoolInv, Has
    <3>3. QED
      BY <3>1, <3>2
  <2>4. ASSUME NEW t \in Sources PROVE SourceInv(t)'
    <3>1. CASE t = current
      BY <1>3, <3>1 DEF PingFails, startVars, poolVars, listenVars,
         SourceInv, Complete, Needed, Has, Empty, Opening, Sources
    <3>2. CASE t # current
      BY <1>3, <3>2 DEF PingFails, startVars, poolVars, listenVars,
         SourceInv, Complete, Needed, Has, Empty, Opening
    <3>3. QED
      BY <3>1, <3>2
  <2>5. OpeningInv'
    BY <1>3 DEF PingFails, startVars, poolVars, listenVars, OpeningInv,
       SourceInv, Complete, Needed
  <2>6. StageInv'
    BY <1>3 DEF PingFails, startVars, poolVars, listenVars, StageInv
  <2>7. ListenerInv'
    BY <1>3 DEF PingFails, listenVars, ListenerInv
  <2>8. ConnInv'
    BY <1>3 DEF PingFails, startVars, listenVars, ConnInv
  <2>9. QED
    BY <2>1, <2>2, <2>3, <2>4, <2>5, <2>6, <2>7, <2>8
<1>4. ASSUME SourceFails PROVE IInv'
  <2>1. current \in Sources /\ current \notin closed /\ UNCHANGED <<handle, registered, current>>
    BY <1>4 DEF SourceFails, startVars, OpeningInv, TypeOK, Fail
  <2>2. PoolInv(current)' /\ pool' \in [Sources -> [Roles -> {"none", "open", "closed"}]] /\ closes' \in [Sources -> [Roles -> Nat]] /\ (\A t \in Sources : t # current => pool'[t] = pool[t] /\ closes'[t] = closes[t]) /\ closed' = closed \cup {current}
    BY <1>4, <2>1, ClosingASource DEF SourceFails
  <2>3. TypeOK'
    BY <1>4, <2>1, <2>2 DEF SourceFails, startVars, poolVars, listenVars,
       TypeOK, Fail
  <2>4. ASSUME NEW t \in Sources PROVE HandleInv(t)'
    BY <1>4, <2>1, <2>2 DEF HandleInv, Has, Empty
  <2>5. ASSUME NEW t \in Sources PROVE PoolInv(t)'
    BY <1>4, <2>1, <2>2 DEF PoolInv, Has
  <2>6. ASSUME NEW t \in Sources PROVE SourceInv(t)'
    BY <1>4, <2>1, <2>2 DEF SourceFails, Fail, SourceInv, Complete, Has,
       Empty, Opening
  <2>7. OpeningInv'
    BY <1>4, <2>1, <2>2 DEF SourceFails, startVars, poolVars, listenVars,
       OpeningInv, SourceInv, Complete, Needed, Has, Fail
  <2>8. StageInv'
    BY <1>4, <2>1, <2>2 DEF SourceFails, startVars, poolVars, listenVars,
       StageInv, Fail
  <2>9. ListenerInv'
    BY <1>4, <2>1, <2>2 DEF SourceFails, startVars, listenVars, ListenerInv,
       Fail
  <2>10. ConnInv'
    BY <1>4, <2>1, <2>2 DEF SourceFails, startVars, poolVars, listenVars,
       ConnInv, Fail
  <2>11. QED
    BY <2>3, <2>4, <2>5, <2>6, <2>7, <2>8, <2>9, <2>10
<1>5. ASSUME Register PROVE IInv'
  <2>1. TypeOK'
    <3>1. CASE current < NumSources
      BY <1>5, NumSourcesAssumption, <3>1, SMTT(20) DEF Register, startVars, poolVars,
         listenVars, TypeOK, Roles, Sources
    <3>2. CASE ~(current < NumSources)
      BY <1>5, NumSourcesAssumption, <3>2 DEF Register, startVars, poolVars,
         listenVars, TypeOK
    <3>3. QED
      BY <3>1, <3>2
  <2>2. ASSUME NEW t \in Sources PROVE HandleInv(t)'
    BY <1>5 DEF Register, HandleInv, Has, Empty
  <2>3. ASSUME NEW t \in Sources PROVE PoolInv(t)'
    BY <1>5 DEF Register, poolVars, PoolInv, Has
  <2>4. ASSUME NEW t \in Sources PROVE SourceInv(t)'
    <3>1. CASE t = current
      BY <1>5, NumSourcesAssumption, <3>1 DEF Register, startVars, poolVars,
         listenVars, SourceInv, Complete, Needed, Has, Empty, OpeningInv,
         Sources
    <3>2. CASE t # current
      BY <1>5, NumSourcesAssumption, <3>2 DEF Register, startVars, poolVars,
         listenVars, SourceInv, Complete, Needed, Has, Empty, Sources,
         TypeOK
    <3>3. QED
      BY <3>1, <3>2
  <2>5. OpeningInv'
    <3>1. CASE current < NumSources
      BY <1>5, NumSourcesAssumption, <3>1, SMTT(20) DEF Register, startVars, poolVars,
         listenVars, OpeningInv, SourceInv, Complete, Needed, Empty, TypeOK,
         Roles, Sources
    <3>2. CASE ~(current < NumSources)
      BY <1>5, NumSourcesAssumption, <3>2 DEF Register, startVars, poolVars,
         listenVars, OpeningInv, SourceInv, Complete, Needed
    <3>3. QED
      BY <3>1, <3>2
  <2>6. StageInv'
    <3>1. CASE current < NumSources
      BY <1>5, NumSourcesAssumption, <3>1 DEF Register, startVars, poolVars,
         listenVars, StageInv
    <3>2. CASE ~(current < NumSources)
      <4>1. current = NumSources
        BY <3>2, NumSourcesAssumption DEF TypeOK, Sources
      <4>2. \A s \in Sources : s = current \/ (s < current /\ s \in registered)
        BY <1>5, <4>1, NumSourcesAssumption DEF Register, SourceInv, Sources
      <4>3. registered' = Sources
        BY <1>5, <4>2 DEF Register, TypeOK
      <4>4. \A s \in Sources, r \in Roles : pool[s][r] # "closed"
        BY <1>5, <4>2 DEF Register, SourceInv, OpeningInv
      <4>5. QED
        BY <1>5, <3>2, <4>3, <4>4 DEF Register, poolVars, listenVars,
           StageInv, OpeningInv
    <3>3. QED
      BY <3>1, <3>2
  <2>7. ListenerInv'
    BY <1>5 DEF Register, listenVars, ListenerInv
  <2>8. ConnInv'
    BY <1>5 DEF Register, startVars, listenVars, ConnInv
  <2>9. QED
    BY <2>1, <2>2, <2>3, <2>4, <2>5, <2>6, <2>7, <2>8
<1>6. ASSUME StartServing PROVE IInv'
  <2>1. TypeOK'
    BY <1>6 DEF StartServing, startVars, poolVars, TypeOK
  <2>2. \A t \in Sources : HandleInv(t)' /\ PoolInv(t)' /\ SourceInv(t)'
    BY <1>6, SameSource DEF StartServing
  <2>3. OpeningInv'
    BY <1>6 DEF StartServing, startVars, poolVars, listenVars, OpeningInv
  <2>4. StageInv'
    BY <1>6 DEF StartServing, startVars, poolVars, StageInv
  <2>5. ListenerInv'
    BY <1>6 DEF StartServing, startVars, ListenerInv
  <2>6. ConnInv'
    BY <1>6 DEF StartServing, startVars, poolVars, ConnInv
  <2>7. QED
    BY <2>1, <2>2, <2>3, <2>4, <2>5, <2>6
<1>7. ASSUME SelectListenError PROVE IInv'
  <2>1. TypeOK'
    BY <1>7 DEF SelectListenError, startVars, poolVars, TypeOK
  <2>2. \A t \in Sources : HandleInv(t)' /\ PoolInv(t)' /\ SourceInv(t)'
    BY <1>7, SameSource DEF SelectListenError
  <2>3. OpeningInv'
    BY <1>7 DEF SelectListenError, startVars, poolVars, listenVars,
       OpeningInv
  <2>4. StageInv'
    BY <1>7 DEF SelectListenError, startVars, StageInv
  <2>5. ListenerInv'
    BY <1>7 DEF SelectListenError, startVars, ListenerInv
  <2>6. ConnInv'
    BY <1>7 DEF SelectListenError, startVars, poolVars, ConnInv, ListenerInv
  <2>7. QED
    BY <2>1, <2>2, <2>3, <2>4, <2>5, <2>6
<1>8. ASSUME SelectSignal PROVE IInv'
  <2>1. TypeOK'
    BY <1>8 DEF SelectSignal, startVars, poolVars, TypeOK
  <2>2. \A t \in Sources : HandleInv(t)' /\ PoolInv(t)' /\ SourceInv(t)'
    BY <1>8, SameSource DEF SelectSignal
  <2>3. OpeningInv'
    BY <1>8 DEF SelectSignal, startVars, poolVars, listenVars, OpeningInv
  <2>4. StageInv'
    BY <1>8 DEF SelectSignal, startVars, poolVars, StageInv
  <2>5. ListenerInv'
    BY <1>8 DEF SelectSignal, startVars, ListenerInv, StageInv
  <2>6. ConnInv'
    BY <1>8 DEF SelectSignal, startVars, poolVars, ConnInv
  <2>7. QED
    BY <2>1, <2>2, <2>3, <2>4, <2>5, <2>6
<1>9. ASSUME ShutdownEnds PROVE IInv'
  <2>1. TypeOK'
    BY <1>9 DEF ShutdownEnds, startVars, poolVars, listenVars, TypeOK
  <2>2. \A t \in Sources : HandleInv(t)' /\ PoolInv(t)' /\ SourceInv(t)'
    BY <1>9, SameSource DEF ShutdownEnds
  <2>3. OpeningInv'
    BY <1>9 DEF ShutdownEnds, startVars, poolVars, listenVars, OpeningInv
  <2>4. StageInv'
    BY <1>9 DEF ShutdownEnds, startVars, poolVars, listenVars, StageInv
  <2>5. ListenerInv'
    BY <1>9 DEF ShutdownEnds, startVars, listenVars, ListenerInv
  <2>6. ConnInv'
    BY <1>9 DEF ShutdownEnds, startVars, poolVars, listenVars, ConnInv
  <2>7. QED
    BY <2>1, <2>2, <2>3, <2>4, <2>5, <2>6
<1>10. ASSUME ShutdownTimeout PROVE IInv'
  <2>1. TypeOK'
    BY <1>10 DEF ShutdownTimeout, startVars, poolVars, listenVars, TypeOK,
       Fail
  <2>2. \A t \in Sources : HandleInv(t)' /\ PoolInv(t)' /\ SourceInv(t)'
    BY <1>10, SameSource DEF ShutdownTimeout, Fail
  <2>3. OpeningInv'
    BY <1>10 DEF ShutdownTimeout, startVars, poolVars, listenVars,
       OpeningInv, Fail
  <2>4. StageInv'
    BY <1>10 DEF ShutdownTimeout, startVars, StageInv, Fail
  <2>5. ListenerInv'
    BY <1>10 DEF ShutdownTimeout, startVars, listenVars, ListenerInv, Fail
  <2>6. ConnInv'
    BY <1>10 DEF ShutdownTimeout, startVars, poolVars, listenVars, ConnInv,
       Fail
  <2>7. QED
    BY <2>1, <2>2, <2>3, <2>4, <2>5, <2>6
<1>11. ASSUME Join PROVE IInv'
  <2>1. TypeOK'
    BY <1>11 DEF Join, startVars, poolVars, TypeOK
  <2>2. \A t \in Sources : HandleInv(t)' /\ PoolInv(t)' /\ SourceInv(t)'
    BY <1>11, SameSource DEF Join
  <2>3. OpeningInv'
    BY <1>11 DEF Join, startVars, poolVars, listenVars, OpeningInv
  <2>4. StageInv'
    BY <1>11 DEF Join, startVars, StageInv
  <2>5. ListenerInv'
    BY <1>11 DEF Join, startVars, ListenerInv, StageInv
  <2>6. ConnInv'
    BY <1>11 DEF Join, startVars, poolVars, ConnInv
  <2>7. QED
    BY <2>1, <2>2, <2>3, <2>4, <2>5, <2>6
<1>12. ASSUME NEW s \in Sources, CloseRegistered(s) PROVE IInv'
  <2>1. s \in Sources /\ s \notin closed /\ UNCHANGED <<handle, registered, current>>
    BY <1>12 DEF CloseRegistered, startVars
  <2>2. PoolInv(s)' /\ pool' \in [Sources -> [Roles -> {"none", "open", "closed"}]] /\ closes' \in [Sources -> [Roles -> Nat]] /\ (\A t \in Sources : t # s => pool'[t] = pool[t] /\ closes'[t] = closes[t]) /\ closed' = closed \cup {s}
    BY <1>12, <2>1, ClosingASource DEF CloseRegistered
  <2>3. TypeOK'
    BY <1>12, <2>1, <2>2 DEF CloseRegistered, startVars, poolVars,
       listenVars, TypeOK
  <2>4. ASSUME NEW t \in Sources PROVE HandleInv(t)'
    BY <1>12, <2>1, <2>2 DEF HandleInv, Has, Empty
  <2>5. ASSUME NEW t \in Sources PROVE PoolInv(t)'
    BY <1>12, <2>1, <2>2 DEF PoolInv, Has
  <2>6. ASSUME NEW t \in Sources PROVE SourceInv(t)'
    BY <1>12, <2>1, <2>2 DEF CloseRegistered, Fail, SourceInv, Complete,
       Has, Empty, Opening
  <2>7. OpeningInv'
    BY <1>12, <2>1, <2>2 DEF CloseRegistered, startVars, poolVars,
       listenVars, OpeningInv, SourceInv, Complete, Needed, Has
  <2>8. StageInv'
    BY <1>12, <2>1, <2>2 DEF CloseRegistered, startVars, poolVars,
       listenVars, StageInv
  <2>9. ListenerInv'
    BY <1>12, <2>1, <2>2 DEF CloseRegistered, startVars, listenVars,
       ListenerInv
  <2>10. ConnInv'
    BY <1>12, <2>1, <2>2 DEF CloseRegistered, startVars, poolVars,
       listenVars, ConnInv
  <2>11. QED
    BY <2>3, <2>4, <2>5, <2>6, <2>7, <2>8, <2>9, <2>10
<1>13. ASSUME Closed PROVE IInv'
  <2>1. TypeOK'
    BY <1>13 DEF Closed, startVars, poolVars, listenVars, TypeOK
  <2>2. \A t \in Sources : HandleInv(t)' /\ PoolInv(t)' /\ SourceInv(t)'
    BY <1>13, SameSource DEF Closed
  <2>3. OpeningInv'
    BY <1>13 DEF Closed, startVars, poolVars, listenVars, OpeningInv
  <2>4. StageInv'
    BY <1>13 DEF Closed, startVars, poolVars, listenVars, StageInv
  <2>5. ListenerInv'
    BY <1>13 DEF Closed, startVars, listenVars, ListenerInv
  <2>6. ConnInv'
    BY <1>13 DEF Closed, startVars, poolVars, listenVars, ConnInv
  <2>7. QED
    BY <2>1, <2>2, <2>3, <2>4, <2>5, <2>6
<1>14. ASSUME Exit PROVE IInv'
  <2>1. TypeOK'
    BY <1>14 DEF Exit, startVars, poolVars, listenVars, TypeOK
  <2>2. \A t \in Sources : HandleInv(t)' /\ PoolInv(t)' /\ SourceInv(t)'
    BY <1>14, SameSource DEF Exit
  <2>3. OpeningInv'
    BY <1>14 DEF Exit, startVars, poolVars, listenVars, OpeningInv
  <2>4. StageInv'
    BY <1>14 DEF Exit, startVars, poolVars, listenVars, StageInv
  <2>5. ListenerInv'
    BY <1>14 DEF Exit, startVars, listenVars, ListenerInv
  <2>6. ConnInv'
    BY <1>14 DEF Exit, startVars, poolVars, listenVars, ConnInv
  <2>7. QED
    BY <2>1, <2>2, <2>3, <2>4, <2>5, <2>6
<1>15. ASSUME Bind PROVE IInv'
  <2>1. TypeOK'
    BY <1>15 DEF Bind, startVars, poolVars, TypeOK
  <2>2. \A t \in Sources : HandleInv(t)' /\ PoolInv(t)' /\ SourceInv(t)'
    BY <1>15, SameSource DEF Bind
  <2>3. OpeningInv'
    BY <1>15 DEF Bind, startVars, poolVars, listenVars, OpeningInv,
       Complete, Has, Empty
  <2>4. StageInv'
    BY <1>15 DEF Bind, startVars, poolVars, StageInv
  <2>5. ListenerInv'
    BY <1>15 DEF Bind, startVars, ListenerInv
  <2>6. ConnInv'
    BY <1>15 DEF Bind, startVars, poolVars, ConnInv
  <2>7. QED
    BY <2>1, <2>2, <2>3, <2>4, <2>5, <2>6
<1>16. ASSUME Listen PROVE IInv'
  <2>1. TypeOK'
    BY <1>16 DEF Listen, startVars, poolVars, TypeOK
  <2>2. \A t \in Sources : HandleInv(t)' /\ PoolInv(t)' /\ SourceInv(t)'
    BY <1>16, SameSource DEF Listen
  <2>3. OpeningInv'
    BY <1>16 DEF Listen, startVars, poolVars, listenVars, OpeningInv,
       Complete, Has, Empty
  <2>4. StageInv'
    BY <1>16 DEF Listen, startVars, poolVars, StageInv
  <2>5. ListenerInv'
    BY <1>16 DEF Listen, startVars, ListenerInv
  <2>6. ConnInv'
    BY <1>16 DEF Listen, startVars, poolVars, ConnInv
  <2>7. QED
    BY <2>1, <2>2, <2>3, <2>4, <2>5, <2>6
<1>17. ASSUME ListenFails PROVE IInv'
  <2>1. TypeOK'
    BY <1>17 DEF ListenFails, startVars, poolVars, TypeOK
  <2>2. \A t \in Sources : HandleInv(t)' /\ PoolInv(t)' /\ SourceInv(t)'
    BY <1>17, SameSource DEF ListenFails
  <2>3. OpeningInv'
    BY <1>17 DEF ListenFails, startVars, poolVars, listenVars, OpeningInv,
       Complete, Has, Empty
  <2>4. StageInv'
    BY <1>17 DEF ListenFails, startVars, poolVars, StageInv
  <2>5. ListenerInv'
    BY <1>17 DEF ListenFails, startVars, ListenerInv
  <2>6. ConnInv'
    BY <1>17 DEF ListenFails, startVars, poolVars, ConnInv
  <2>7. QED
    BY <2>1, <2>2, <2>3, <2>4, <2>5, <2>6
<1>18. ASSUME ListenEnds PROVE IInv'
  <2>1. TypeOK'
    BY <1>18 DEF ListenEnds, startVars, poolVars, TypeOK
  <2>2. \A t \in Sources : HandleInv(t)' /\ PoolInv(t)' /\ SourceInv(t)'
    BY <1>18, SameSource DEF ListenEnds
  <2>3. OpeningInv'
    BY <1>18 DEF ListenEnds, startVars, poolVars, listenVars, OpeningInv,
       Complete, Has, Empty
  <2>4. StageInv'
    BY <1>18 DEF ListenEnds, startVars, poolVars, StageInv
  <2>5. ListenerInv'
    BY <1>18 DEF ListenEnds, startVars, ListenerInv
  <2>6. ConnInv'
    BY <1>18 DEF ListenEnds, startVars, poolVars, ConnInv
  <2>7. QED
    BY <2>1, <2>2, <2>3, <2>4, <2>5, <2>6
<1>19. ASSUME Signal PROVE IInv'
  <2>1. TypeOK'
    BY <1>19 DEF Signal, startVars, poolVars, listenVars, TypeOK
  <2>2. \A t \in Sources : HandleInv(t)' /\ PoolInv(t)' /\ SourceInv(t)'
    BY <1>19, SameSource DEF Signal
  <2>3. OpeningInv'
    BY <1>19 DEF Signal, startVars, poolVars, listenVars, OpeningInv,
       Complete, Has, Empty
  <2>4. StageInv'
    BY <1>19 DEF Signal, startVars, poolVars, listenVars, StageInv
  <2>5. ListenerInv'
    BY <1>19 DEF Signal, startVars, listenVars, ListenerInv
  <2>6. ConnInv'
    BY <1>19 DEF Signal, startVars, poolVars, listenVars, ConnInv
  <2>7. QED
    BY <2>1, <2>2, <2>3, <2>4, <2>5, <2>6
<1>20. ASSUME NEW c \in Connections, Connect(c) PROVE IInv'
  <2>1. TypeOK'
    BY <1>20 DEF Connect, startVars, poolVars, listenVars, TypeOK
  <2>2. \A t \in Sources : HandleInv(t)' /\ PoolInv(t)' /\ SourceInv(t)'
    BY <1>20, SameSource DEF Connect
  <2>3. OpeningInv'
    BY <1>20 DEF Connect, startVars, poolVars, listenVars, OpeningInv,
       Complete, Has, Empty
  <2>4. StageInv'
    BY <1>20 DEF Connect, startVars, poolVars, listenVars, StageInv
  <2>5. ListenerInv'
    BY <1>20 DEF Connect, startVars, listenVars, ListenerInv
  <2>6. ConnInv'
    BY <1>20 DEF Connect, startVars, poolVars, listenVars, ConnInv,
       ListenerInv
  <2>7. QED
    BY <2>1, <2>2, <2>3, <2>4, <2>5, <2>6
<1>21. ASSUME NEW c \in Connections, Request(c) PROVE IInv'
  <2>1. TypeOK'
    BY <1>21 DEF Request, startVars, poolVars, listenVars, TypeOK
  <2>2. \A t \in Sources : HandleInv(t)' /\ PoolInv(t)' /\ SourceInv(t)'
    BY <1>21, SameSource DEF Request
  <2>3. OpeningInv'
    BY <1>21 DEF Request, startVars, poolVars, listenVars, OpeningInv,
       Complete, Has, Empty
  <2>4. StageInv'
    BY <1>21 DEF Request, startVars, poolVars, listenVars, StageInv
  <2>5. ListenerInv'
    BY <1>21 DEF Request, startVars, listenVars, ListenerInv
  <2>6. ConnInv'
    BY <1>21 DEF Request, startVars, poolVars, listenVars, ConnInv
  <2>7. QED
    BY <2>1, <2>2, <2>3, <2>4, <2>5, <2>6
<1>22. ASSUME NEW c \in Connections, Hangup(c) PROVE IInv'
  <2>1. TypeOK'
    BY <1>22 DEF Hangup, startVars, poolVars, listenVars, TypeOK
  <2>2. \A t \in Sources : HandleInv(t)' /\ PoolInv(t)' /\ SourceInv(t)'
    BY <1>22, SameSource DEF Hangup
  <2>3. OpeningInv'
    BY <1>22 DEF Hangup, startVars, poolVars, listenVars, OpeningInv,
       Complete, Has, Empty
  <2>4. StageInv'
    BY <1>22 DEF Hangup, startVars, poolVars, listenVars, StageInv
  <2>5. ListenerInv'
    BY <1>22 DEF Hangup, startVars, listenVars, ListenerInv
  <2>6. ConnInv'
    BY <1>22 DEF Hangup, startVars, poolVars, listenVars, ConnInv
  <2>7. QED
    BY <2>1, <2>2, <2>3, <2>4, <2>5, <2>6
<1>23. ASSUME NEW c \in Connections, Answer(c) PROVE IInv'
  <2>1. TypeOK'
    BY <1>23 DEF Answer, startVars, poolVars, listenVars, TypeOK
  <2>2. \A t \in Sources : HandleInv(t)' /\ PoolInv(t)' /\ SourceInv(t)'
    BY <1>23, SameSource DEF Answer
  <2>3. OpeningInv'
    BY <1>23 DEF Answer, startVars, poolVars, listenVars, OpeningInv,
       Complete, Has, Empty
  <2>4. StageInv'
    BY <1>23 DEF Answer, startVars, poolVars, listenVars, StageInv
  <2>5. ListenerInv'
    BY <1>23 DEF Answer, startVars, listenVars, ListenerInv
  <2>6. ConnInv'
    BY <1>23 DEF Answer, startVars, poolVars, listenVars, ConnInv
  <2>7. QED
    BY <2>1, <2>2, <2>3, <2>4, <2>5, <2>6
<1>24. CASE UNCHANGED vars
  <2>1. \A t \in Sources : HandleInv(t)' /\ PoolInv(t)' /\ SourceInv(t)'
    BY <1>24, SameSource DEF vars
  <2>2. TypeOK' /\ OpeningInv'
    BY <1>24 DEF vars, startVars, poolVars, listenVars, TypeOK, OpeningInv,
       Complete, Has, Empty
  <2>3. StageInv' /\ ListenerInv' /\ ConnInv'
    BY <1>24 DEF vars, startVars, poolVars, listenVars, StageInv,
       ListenerInv, ConnInv
  <2>4. QED
    BY <2>1, <2>2, <2>3
<1>25. QED
    BY <1>1, <1>2, <1>3, <1>4, <1>5, <1>6, <1>7, <1>8, <1>9, <1>10, <1>11,
       <1>12, <1>13, <1>14, <1>15, <1>16, <1>17, <1>18, <1>19, <1>20,
       <1>21, <1>22, <1>23, <1>24 DEF Next, MainStep, OpenStep, ServeStep,
       CloseStep, ListenerStep, ConnectionStep

\* Every reachable state satisfies the inductive invariant.
THEOREM Invariance == Spec => []IInv
<1>1. Init => IInv
  <2> SUFFICES ASSUME Init PROVE IInv
    OBVIOUS
  <2>1. TypeOK
    <3>1. current \in Sources
      BY NumSourcesAssumption DEF Init, Sources
    <3>2. QED
      BY <3>1 DEF Init, TypeOK, Roles
  <2>2. ASSUME NEW s \in Sources PROVE HandleInv(s) /\ PoolInv(s) /\ SourceInv(s)
    <3>1. Empty(s) /\ ~Has(s, "read") /\ \A r \in Roles : ~Has(s, r) /\ pool[s][r] = "none"
      BY DEF Init, Empty, Has, Roles
    <3>2. QED
      BY <3>1 DEF Init, HandleInv, PoolInv, SourceInv, Roles, Sources
  <2>3. OpeningInv
    BY NumSourcesAssumption DEF Init, OpeningInv, Empty, Roles, Sources
  <2>4. StageInv /\ ListenerInv /\ ConnInv
    BY DEF Init, StageInv, ListenerInv, ConnInv
  <2>5. QED
    BY <2>1, <2>2, <2>3, <2>4 DEF IInv
<1>2. QED
  BY <1>1, Inductive, PTL DEF Spec

\* The variables keep their types (OpenRegistry, serveHTTP).
THEOREM TypeCorrect == Spec => []TypeOK
<1>1. IInv => TypeOK
  BY DEF IInv
<1>2. QED
  BY <1>1, Invariance, PTL

\* No request is handled by a process that has not opened every pool of every
\* source (OpenRegistry).
THEOREM OnlyCompleteServes == Spec => []ServedOnlyComplete
<1>1. IInv => ServedOnlyComplete
  <2> SUFFICES ASSUME IInv, NEW c \in Connections, conn[c] = "active", NEW s \in Sources
               PROVE  Needed(s) \subseteq Owned(s)
    BY DEF ServedOnlyComplete
  <2>1. Complete(s)
    BY DEF IInv, ConnInv, StageInv, SourceInv
  <2>2. QED
    BY <2>1, OwnedPools DEF IInv, Complete, Needed, Roles
<1>2. QED
  BY <1>1, Invariance, PTL

\* Whatever happened, no pool is open and none was closed twice when
\* serveAction has returned (Source.Close, Registry.Close).
THEOREM PoolsClosedOnce == Spec => []EveryPoolClosedOnce
<1>1. IInv => EveryPoolClosedOnce
  <2> SUFFICES ASSUME IInv, stage \in {"returned", "exited"},
                      NEW s \in Sources, NEW r \in Roles
               PROVE  /\ pool[s][r] # "open"
                      /\ closes[s][r] = IF pool[s][r] = "none" THEN 0 ELSE 1
    BY DEF EveryPoolClosedOnce
  <2>1. Has(s, r) => s \in closed
    <3>1. Has(s, r) => ~Empty(s)
      BY DEF Has, Empty, Roles
    <3>2. QED
      BY <3>1 DEF IInv, SourceInv, StageInv, Opening
  <2>2. pool[s][r] # "open"
    BY <2>1 DEF IInv, PoolInv
  <2>3. QED
    BY <2>2 DEF IInv, PoolInv, TypeOK
<1>2. QED
  BY <1>1, Invariance, PTL

\* A process that does not report an error has let every handler finish, on
\* open pools (serveHTTP, Shutdown).
THEOREM CleanStop == Spec => []CleanStopFinishesRequests
<1>1. IInv => CleanStopFinishesRequests
  BY DEF IInv, TypeOK, StageInv, ConnInv, CleanStopFinishesRequests
<1>2. QED
  BY <1>1, Invariance, PTL

\* A listener that failed makes the process fail (serveHTTP).
THEOREM FailureReported == Spec => []ListenFailureReported
<1>1. IInv => ListenFailureReported
  BY DEF IInv, ListenerInv, ListenFailureReported
<1>2. QED
  BY <1>1, Invariance, PTL
=============================================================================
