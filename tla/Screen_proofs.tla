--------------------------- MODULE Screen_proofs ----------------------------
(***************************************************************************)
(* What the requests of any page keep to, for every page and every bound.  *)
(***************************************************************************)
EXTENDS Screen, TLAPS, FiniteSetTheorems, WellFoundedInduction

\* A new request takes a number that no like request in flight has.
LEMMA SlotFree ==
    ASSUME NEW call, Unsent(call)
    PROVE  Slot(call) \in 1..MaxAlike /\ \A r \in net : r.call = call => r.n # Slot(call)
    <1>1. Slots(call) \subseteq Nat /\ Slots(call) # {}
      BY DEF Unsent, Slots
    <1> DEFINE Before == {p \in Nat \X Nat : p[1] < p[2]}
    <1>2. IsWellFoundedOn(Before, Nat)
      BY NatLessThanWellFounded DEF OpToRel
    <1>3. PICK n \in Slots(call) : \A k \in Slots(call) : <<k, n>> \notin Before
      <2> HIDE DEF Before
      <2> QED BY <1>1, <1>2, WFMin
    <1>4. ASSUME NEW k \in Slots(call)
          PROVE  n <= k
      <2>1. k \in Nat /\ n \in Nat
        BY <1>1
      <2>2. ~(k < n)
        BY <2>1, <1>3
      <2> QED BY <2>1, <2>2
    <1>5. Slot(call) \in Slots(call)
      BY <1>3, <1>4 DEF Slot
    <1> QED BY <1>5 DEF Slots, Alike

-----------------------------------------------------------------------------
(* The bound on the writes *)

SentWrites(requests) == {r \in requests : r.kind = "write" /\ r.step = "sent"}

LEMMA MaxWritesNat == MaxWrites \in Nat
    BY ScreenAssumption

\* Every write in flight may still be served.
WritesBounded ==
    /\ db \in Nat /\ IsFiniteSet(SentWrites(net))
    /\ db + Cardinality(SentWrites(net)) <= MaxWrites

LEMMA VersionsInBound ==
    ASSUME WritesBounded
    PROVE  db \in Versions
    <1>1. Cardinality(SentWrites(net)) \in Nat
      BY FS_CardinalityType DEF WritesBounded
    <1> QED BY <1>1, MaxWritesNat DEF WritesBounded, Versions

LEMMA FewerWrites ==
    ASSUME WritesBounded, db' = db, SentWrites(net') \subseteq SentWrites(net)
    PROVE  WritesBounded'
    <1>1. /\ IsFiniteSet(SentWrites(net'))
          /\ Cardinality(SentWrites(net')) <= Cardinality(SentWrites(net))
      BY FS_Subset DEF WritesBounded
    <1>2. Cardinality(SentWrites(net)) \in Nat /\ Cardinality(SentWrites(net')) \in Nat
      BY <1>1, FS_CardinalityType DEF WritesBounded
    <1>3. (SentWrites(net))' = SentWrites(net')
      BY DEF SentWrites
    <1>4. db' + Cardinality(SentWrites(net')) <= MaxWrites
      BY <1>1, <1>2, MaxWritesNat DEF WritesBounded
    <1> QED BY <1>1, <1>3, <1>4 DEF WritesBounded

LEMMA OneMoreWrite ==
    ASSUME WritesBounded, db' = db, NEW call, MayWrite(call), NEW w,
           SentWrites(net') \subseteq SentWrites(net) \cup {w}
    PROVE  WritesBounded'
    <1> DEFINE more == SentWrites(net) \cup {w}
    <1>0. IsFiniteSet(SentWrites(net)) /\ Cardinality(SentWrites(net)) \in Nat
      BY FS_CardinalityType DEF WritesBounded
    <1>1. /\ IsFiniteSet(more) /\ Cardinality(more) <= Cardinality(SentWrites(net)) + 1
      BY <1>0, FS_AddElement
    <1>2. /\ IsFiniteSet(SentWrites(net')) /\ Cardinality(SentWrites(net')) <= Cardinality(more)
      BY <1>1, FS_Subset
    <1>3. /\ Cardinality(SentWrites(net)) \in Nat /\ Cardinality(SentWrites(net')) \in Nat
          /\ Cardinality(more) \in Nat
      BY <1>1, <1>2, FS_CardinalityType DEF WritesBounded
    <1>4. db + Cardinality(SentWrites(net)) < MaxWrites
      BY DEF MayWrite, SentWrites
    <1>5. (SentWrites(net))' = SentWrites(net')
      BY DEF SentWrites
    <1>6. db' + Cardinality(SentWrites(net')) <= MaxWrites
      <2> HIDE DEF more
      <2> QED BY <1>1, <1>2, <1>3, <1>4, MaxWritesNat DEF WritesBounded
    <1> QED BY <1>2, <1>5, <1>6 DEF WritesBounded

LEMMA OneServed ==
    ASSUME WritesBounded, NEW w \in SentWrites(net), db' \in {db, db + 1},
           SentWrites(net') \subseteq SentWrites(net) \ {w}
    PROVE  WritesBounded'
    <1> DEFINE fewer == SentWrites(net) \ {w}
    <1>1. IsFiniteSet(fewer) /\ Cardinality(fewer) = Cardinality(SentWrites(net)) - 1
      BY FS_RemoveElement DEF WritesBounded
    <1>2. /\ IsFiniteSet(SentWrites(net')) /\ Cardinality(SentWrites(net')) <= Cardinality(fewer)
      BY <1>1, FS_Subset
    <1>3. /\ Cardinality(SentWrites(net)) \in Nat /\ Cardinality(SentWrites(net')) \in Nat
          /\ Cardinality(fewer) \in Nat
      BY <1>1, <1>2, FS_CardinalityType DEF WritesBounded
    <1>4. (SentWrites(net))' = SentWrites(net')
      BY DEF SentWrites
    <1> HIDE DEF fewer
    <1> QED BY <1>1, <1>2, <1>3, <1>4, MaxWritesNat DEF WritesBounded

\* Some of the writes in flight are marked: there are no more of them.
LEMMA MarkedWrites ==
    ASSUME WritesBounded, db' = db, NEW marked,
           SentWrites(net') \subseteq {marked[r] : r \in SentWrites(net)}
    PROVE  WritesBounded'
    <1> DEFINE S == SentWrites(net)
               T == {marked[r] : r \in S}
               f == [r \in S |-> marked[r]]
    <1>1. f \in Surjection(S, T)
      BY DEF Surjection
    <1>2. IsFiniteSet(T) /\ Cardinality(T) <= Cardinality(S)
      <2>1. IsFiniteSet(S)
        BY DEF WritesBounded
      <2> HIDE DEF S, T, f
      <2> QED BY <1>1, <2>1, FS_Surjection
    <1>3. IsFiniteSet(SentWrites(net')) /\ Cardinality(SentWrites(net')) <= Cardinality(T)
      BY <1>2, FS_Subset
    <1>4. /\ Cardinality(S) \in Nat /\ Cardinality(SentWrites(net')) \in Nat /\ Cardinality(T) \in Nat
      BY <1>2, <1>3, FS_CardinalityType DEF WritesBounded
    <1>5. (SentWrites(net))' = SentWrites(net')
      BY DEF SentWrites
    <1>6. db' + Cardinality(SentWrites(net')) <= MaxWrites
      <2> HIDE DEF T
      <2> QED BY <1>2, <1>3, <1>4, MaxWritesNat DEF WritesBounded
    <1> QED BY <1>3, <1>5, <1>6 DEF WritesBounded

-----------------------------------------------------------------------------
(* The server and the network *)

LEMMA NewRequest ==
    ASSUME NEW subjects, NEW calls, NEW flags, None \in subjects,
           NEW call \in calls, NEW arg \in subjects, NEW flag \in flags, Unsent(call),
           NEW kind \in {"read", "write"}
    PROVE  Request(kind, call, arg, flag, Slot(call)) \in Requests(subjects, calls, flags)
    <1>1. 0 \in Versions
      BY MaxWritesNat DEF Versions
    <1> QED BY <1>1, SlotFree DEF Request, Requests, Steps

\* One request is answered: nothing but its step and what it saw changes, and while
\* nothing has failed it was served what the server has.
Served(r, step, saw) ==
    /\ r.step = "sent" /\ net' = (net \ {r}) \cup {[r EXCEPT !.step = step, !.saw = saw]}
    /\ failures' = 0 => failures = 0 /\ step = "served"
    /\ step \in Steps /\ step # "sent" /\ saw \in Versions
    /\ step = "served" => saw = db'
    /\ step = "partly" => saw = db /\ db' = db
    /\ r.kind = "read" => db' = db
    /\ r.kind = "write" /\ step = "served" => db' = db + 1
    /\ db' \in {db, db + 1}

LEMMA NetworkStep ==
    ASSUME NEW subjects, NEW calls, NEW flags, net \subseteq Requests(subjects, calls, flags),
           WritesBounded, failures \in 0..MaxFailures, NEW groups, Network(groups)
    PROVE  /\ net' \subseteq Requests(subjects, calls, flags)
           /\ WritesBounded' /\ failures' \in 0..MaxFailures
           /\ UNCHANGED <<view, inputs>>
           /\ \E r \in net : \E step, saw : Served(r, step, saw)
    <1>1. PICK r \in net : ServeRead(r) \/ ServeWrite(r) \/ ServePartly(r, groups)
                           \/ Refuse(r) \/ LoseAnswer(r)
      BY DEF Network
    <1>2. r \in Requests(subjects, calls, flags)
      OBVIOUS
    <1>3. db \in Versions /\ 0 \in Versions /\ db \in Nat /\ failures \in Nat
      BY VersionsInBound, MaxWritesNat DEF Versions, WritesBounded
    <1>4. r.step = "sent" /\ r.kind \in {"read", "write"}
      BY <1>1, <1>2 DEF ServeRead, ServeWrite, ServePartly, Refuse, LoseAnswer, Requests
    <1>5. r.kind = "write" => r \in SentWrites(net) /\ db + 1 \in Versions
      <2>1. SUFFICES ASSUME r.kind = "write" PROVE r \in SentWrites(net) /\ db + 1 \in Versions
        OBVIOUS
      <2>2. r \in SentWrites(net)
        BY <2>1, <1>4 DEF SentWrites
      <2>3. IsFiniteSet(SentWrites(net)) /\ Cardinality(SentWrites(net)) \in Nat
        BY FS_CardinalityType DEF WritesBounded
      <2>4. Cardinality(SentWrites(net)) # 0
        BY <2>2, <2>3, FS_EmptySet
      <2> QED BY <2>2, <2>3, <2>4, MaxWritesNat DEF WritesBounded, Versions
    <1>6. \E step, saw : Served(r, step, saw)
      <2>1. CASE ServeRead(r)
        <3>1. Served(r, "served", db)
          BY <2>1, <1>3, <1>4 DEF ServeRead, Served, Settle, server, Steps
        <3> QED BY <3>1
      <2>2. CASE ServeWrite(r)
        <3>1. Served(r, "served", db + 1)
          BY <2>2, <1>3, <1>4, <1>5 DEF ServeWrite, Served, Settle, Steps
        <3> QED BY <3>1
      <2>3. CASE ServePartly(r, groups)
        <3>1. Served(r, "partly", db)
          BY <2>3, <1>3, <1>4 DEF ServePartly, Served, Settle, Fails, Steps
        <3> QED BY <3>1
      <2>4. CASE Refuse(r)
        <3>1. Served(r, "failed", 0)
          BY <2>4, <1>3, <1>4 DEF Refuse, Served, Settle, Fails, Steps
        <3> QED BY <3>1
      <2>5. CASE LoseAnswer(r)
        <3>1. Served(r, "failed", 0)
          BY <2>5, <1>3, <1>4 DEF LoseAnswer, Served, Settle, Fails, Steps
        <3> QED BY <3>1
      <2> QED BY <1>1, <2>1, <2>2, <2>3, <2>4, <2>5
    <1>7. PICK step, saw : Served(r, step, saw)
      BY <1>6
    <1>8. [r EXCEPT !.step = step, !.saw = saw] \in Requests(subjects, calls, flags)
      BY <1>2, <1>7 DEF Served, Requests
    <1>9. net' \subseteq Requests(subjects, calls, flags)
      BY <1>7, <1>8 DEF Served
    <1>10. WritesBounded'
      <2>1. SentWrites(net') \subseteq SentWrites(net) \ {r}
        BY <1>2, <1>4, <1>7 DEF Served, SentWrites, Requests
      <2>2. CASE r.kind = "write"
        BY <2>1, <2>2, <1>5, <1>7, OneServed DEF Served
      <2>3. CASE r.kind = "read"
        BY <2>1, <2>3, <1>7, FewerWrites DEF Served
      <2> QED BY <2>2, <2>3, <1>4
    <1>11. failures' \in 0..MaxFailures /\ UNCHANGED <<view, inputs>>
      <2>1. /\ UNCHANGED <<view, inputs>>
            /\ \/ failures' = failures
               \/ failures < MaxFailures /\ failures' = failures + 1
        BY <1>1 DEF ServeRead, ServeWrite, ServePartly, Refuse, LoseAnswer, Fails, server
      <2>2. MaxFailures \in Nat
        BY ScreenAssumption
      <2> QED BY <2>1, <2>2
    <1> QED BY <1>7, <1>9, <1>10, <1>11

\* Before the user has done anything.
LEMMA StartTyped ==
    ASSUME Start, SentWrites(net) = {}
    PROVE  /\ WritesBounded /\ inputs \in 0..MaxInputs /\ failures \in 0..MaxFailures
           /\ 0 \in Versions /\ 1 \in 1..MaxAlike
    <1>1. MaxAlike \in Nat \ {0} /\ MaxInputs \in Nat /\ MaxFailures \in Nat
      BY ScreenAssumption
    <1>2. db = 0 /\ inputs = 0 /\ failures = 0
      BY DEF Start
    <1>3. WritesBounded
      BY <1>2, FS_EmptySet, MaxWritesNat DEF WritesBounded
    <1>4. 0 \in Versions
      BY MaxWritesNat DEF Versions
    <1> QED BY <1>1, <1>2, <1>3, <1>4

\* What a request that has just been sent asks.
Asks(q, kind, call, arg, at, flag) ==
    q.kind = kind /\ q.call = call /\ q.arg = arg /\ q.at = at /\ q.flag = flag

LEMMA NewAsked ==
    ASSUME NEW subjects, NEW calls, NEW flags, None \in subjects,
           NEW call \in calls, NEW arg \in subjects, NEW at \in subjects, NEW flag \in flags,
           Unsent(call)
    PROVE  /\ Read(call, arg, flag) \in Requests(subjects, calls, flags)
           /\ Write(call, arg, flag) \in Requests(subjects, calls, flags)
           /\ Keeping(Read(call, arg, flag), at) \in Requests(subjects, calls, flags)
           /\ Keeping(Write(call, arg, flag), at) \in Requests(subjects, calls, flags)
           /\ Asks(Read(call, arg, flag), "read", call, arg, None, flag)
           /\ Asks(Write(call, arg, flag), "write", call, arg, None, flag)
           /\ Asks(Keeping(Read(call, arg, flag), at), "read", call, arg, at, flag)
           /\ Asks(Keeping(Write(call, arg, flag), at), "write", call, arg, at, flag)
    <1>1. /\ Read(call, arg, flag) \in Requests(subjects, calls, flags)
          /\ Write(call, arg, flag) \in Requests(subjects, calls, flags)
      BY NewRequest DEF Read, Write
    <1>2. /\ Keeping(Read(call, arg, flag), at) \in Requests(subjects, calls, flags)
          /\ Keeping(Write(call, arg, flag), at) \in Requests(subjects, calls, flags)
      BY <1>1 DEF Keeping, Requests
    <1>3. /\ Asks(Read(call, arg, flag), "read", call, arg, None, flag)
          /\ Asks(Write(call, arg, flag), "write", call, arg, None, flag)
      BY DEF Read, Write, Request, Asks
    <1>4. /\ Asks(Keeping(Read(call, arg, flag), at), "read", call, arg, at, flag)
          /\ Asks(Keeping(Write(call, arg, flag), at), "write", call, arg, at, flag)
      BY DEF Read, Write, Request, Asks, Keeping
    <1> QED BY <1>1, <1>2, <1>3, <1>4

LEMMA FirstAsked ==
    ASSUME NEW subjects, NEW calls, NEW flags, None \in subjects,
           NEW call \in calls, NEW arg \in subjects, NEW at \in subjects, NEW flag \in flags
    PROVE  /\ Request("read", call, arg, flag, 1) \in Requests(subjects, calls, flags)
           /\ Keeping(Request("read", call, arg, flag, 1), at) \in Requests(subjects, calls, flags)
           /\ Asks(Request("read", call, arg, flag, 1), "read", call, arg, None, flag)
           /\ Asks(Keeping(Request("read", call, arg, flag, 1), at), "read", call, arg, at, flag)
    <1>1. 0 \in Versions /\ 1 \in 1..MaxAlike
      <2>1. MaxAlike \in Nat \ {0}
        BY ScreenAssumption
      <2>2. 0 \in Versions
        BY MaxWritesNat DEF Versions
      <2> QED BY <2>1, <2>2
    <1>2. Request("read", call, arg, flag, 1) \in Requests(subjects, calls, flags)
      BY <1>1 DEF Request, Requests, Steps
    <1>3. Keeping(Request("read", call, arg, flag, 1), at) \in Requests(subjects, calls, flags)
      BY <1>2 DEF Keeping, Requests
    <1>4. /\ Asks(Request("read", call, arg, flag, 1), "read", call, arg, None, flag)
          /\ Asks(Keeping(Request("read", call, arg, flag, 1), at), "read", call, arg, at, flag)
      BY DEF Request, Asks, Keeping
    <1> QED BY <1>2, <1>3, <1>4

LEMMA AskedAgain ==
    ASSUME NEW subjects, NEW calls, NEW flags, NEW r \in Requests(subjects, calls, flags)
    PROVE  /\ Reread(r) \in Requests(subjects, calls, flags)
           /\ Asks(Reread(r), "read", r.call, r.arg, r.at, r.flag)
    <1>1. 0 \in Versions
      BY MaxWritesNat DEF Versions
    <1>2. Reread(r) \in Requests(subjects, calls, flags)
      BY <1>1 DEF Reread, Requests, Steps
    <1> QED BY <1>2 DEF Reread, Requests, Asks

-----------------------------------------------------------------------------
(* The frame of a page: its requests are among R, and each flag of E is that of   *)
(* one request at most, and up as long as that one is in flight.                   *)

Frame(R, E) ==
    /\ net \subseteq R /\ WritesBounded
    /\ inputs \in 0..MaxInputs /\ failures \in 0..MaxFailures
    /\ \A r \in net : r.flag \in E => r.flag \in view.busy
    /\ \A r, s \in net : r.flag = s.flag /\ r.flag \in E => r = s

\* What is shown as busy has a request whose end lowers it.
Covered == \A f \in view.busy \ {"due"} : HasRequest(f)

\* A step of the page itself, by its user or not.
Moves == Input \/ UNCHANGED server

LEMMA MovesCounted ==
    ASSUME inputs \in 0..MaxInputs, failures \in 0..MaxFailures, Moves
    PROVE  inputs' \in 0..MaxInputs /\ failures' \in 0..MaxFailures /\ db' = db
    <1>1. MaxInputs \in Nat
      BY ScreenAssumption
    <1>2. db' = db /\ failures' = failures
      BY DEF Moves, Input, server
    <1>3. inputs' = inputs \/ (inputs < MaxInputs /\ inputs' = inputs + 1)
      BY DEF Moves, Input, server
    <1> QED BY <1>1, <1>2, <1>3

\* Requests end or are given up, and readings without a flag of E are sent.
LEMMA FrameEnded ==
    ASSUME NEW R, NEW E, Frame(R, E), Moves,
           NEW gone \in SUBSET net, NEW extra \in SUBSET R,
           \A x \in extra : x.kind = "read" /\ x.flag \notin E,
           Sends(gone, extra), view'.busy \subseteq view.busy,
           \A g \in gone : g.flag \notin view'.busy \ {"due"},
           \A f \in E : f \in view.busy /\ f \notin view'.busy => \E g \in gone : g.flag = f
    PROVE  Frame(R, E)' /\ (Covered => Covered')
    <1>1. net' = (net \ gone) \cup extra
      BY DEF Sends
    <1>2. inputs' \in 0..MaxInputs /\ failures' \in 0..MaxFailures /\ db' = db
      BY MovesCounted DEF Frame
    <1>3. WritesBounded'
      <2>1. SentWrites(net') \subseteq SentWrites(net)
        BY <1>1 DEF SentWrites
      <2> QED BY <2>1, <1>2, FewerWrites DEF Frame
    <1>4. \A r \in net' : r.flag \in E => r \in net \ gone
      BY <1>1
    <1>5. ASSUME NEW r \in net', r.flag \in E
          PROVE  r.flag \in view'.busy
      <2>1. r \in net \ gone /\ r.flag \in view.busy
        BY <1>4, <1>5 DEF Frame
      <2>2. \A g \in gone : g.flag # r.flag
        BY <2>1, <1>5 DEF Frame
      <2> QED BY <2>1, <2>2, <1>5
    <1>6. \A r, s \in net' : r.flag = s.flag /\ r.flag \in E => r = s
      BY <1>4 DEF Frame
    <1>7. net' \subseteq R
      BY <1>1 DEF Frame
    <1>8. Frame(R, E)'
      BY <1>2, <1>3, <1>5, <1>6, <1>7 DEF Frame
    <1>9. ASSUME Covered, NEW f \in view'.busy \ {"due"}
          PROVE  \E r \in net' : r.flag = f
      <2>1. PICK r \in net : r.flag = f
        BY <1>9 DEF Covered, HasRequest
      <2> QED BY <2>1, <1>1
    <1>10. Covered => Covered'
      BY <1>9 DEF Covered, HasRequest
    <1> QED BY <1>8, <1>10

\* One request ends.
LEMMA FrameAnswered ==
    ASSUME NEW R, NEW E, Frame(R, E), Moves, NEW r \in net, Sends({r}, {}),
           view'.busy \subseteq view.busy \ {r.flag},
           \A f \in E : f \in view.busy /\ f # r.flag => f \in view'.busy
    PROVE  Frame(R, E)' /\ (Covered => Covered')
    <1> DEFINE gone == {r}
               extra == {}
    <1>1. gone \in SUBSET net /\ extra \in SUBSET R /\ Sends(gone, extra)
      OBVIOUS
    <1>2. /\ \A x \in extra : x.kind = "read" /\ x.flag \notin E
          /\ view'.busy \subseteq view.busy
          /\ \A g \in gone : g.flag \notin view'.busy \ {"due"}
          /\ \A f \in E : f \in view.busy /\ f \notin view'.busy => \E g \in gone : g.flag = f
      OBVIOUS
    <1> HIDE DEF gone, extra
    <1> QED BY <1>1, <1>2, FrameEnded

\* Nothing is sent or received.
LEMMA FrameQuiet ==
    ASSUME NEW R, NEW E, Frame(R, E), Moves, UNCHANGED net,
           view'.busy \subseteq view.busy, \A f \in E : f \in view.busy => f \in view'.busy
    PROVE  Frame(R, E)' /\ (Covered => Covered')
    <1> DEFINE gone == {}
               extra == {}
    <1>1. gone \in SUBSET net /\ extra \in SUBSET R /\ Sends(gone, extra)
      BY DEF Sends
    <1>2. /\ \A x \in extra : x.kind = "read" /\ x.flag \notin E
          /\ \A g \in gone : g.flag \notin view'.busy \ {"due"}
          /\ \A f \in E : f \in view.busy /\ f \notin view'.busy => \E g \in gone : g.flag = f
      OBVIOUS
    <1> HIDE DEF gone, extra
    <1> QED BY <1>1, <1>2, FrameEnded

\* A reading is sent, in place of others that ended or are given up.
LEMMA FrameFollowed ==
    ASSUME NEW R, NEW E, Frame(R, E), Moves,
           NEW gone \in SUBSET net, NEW sent \in SUBSET R, NEW q \in sent,
           \A x \in sent : x.kind = "read" /\ (x = q \/ x.flag \notin E),
           Sends(gone, sent), view'.busy \subseteq view.busy \cup {q.flag},
           \A g \in gone : g.flag \in view'.busy \ {"due"} => g.flag = q.flag,
           \A f \in E : f \in view.busy /\ f \notin view'.busy => \E g \in gone : g.flag = f,
           q.flag \in E => /\ q.flag \in view'.busy
                           /\ q.flag \in view.busy => \E g \in gone : g.flag = q.flag
    PROVE  Frame(R, E)' /\ (Covered => Covered')
    <1>1. net' = (net \ gone) \cup sent
      BY DEF Sends
    <1>2. inputs' \in 0..MaxInputs /\ failures' \in 0..MaxFailures /\ db' = db
      BY MovesCounted DEF Frame
    <1>3. WritesBounded'
      <2>1. SentWrites(net') \subseteq SentWrites(net)
        BY <1>1 DEF SentWrites
      <2> QED BY <2>1, <1>2, FewerWrites DEF Frame
    <1>4. \A r \in net' : r.flag \in E => r \in net \ gone \/ r = q
      BY <1>1
    <1>5. ASSUME NEW r \in net', r.flag \in E
          PROVE  r.flag \in view'.busy
      <2>1. CASE r = q
        BY <2>1, <1>5
      <2>2. CASE r \in net \ gone
        <3>1. r.flag \in view.busy
          BY <2>2, <1>5 DEF Frame
        <3>2. \A g \in gone : g.flag # r.flag
          BY <2>2, <1>5 DEF Frame
        <3> QED BY <3>1, <3>2, <1>5
      <2> QED BY <2>1, <2>2, <1>4, <1>5
    <1>6. \A r \in net \ gone : r.flag \in E => r.flag # q.flag
      <2>1. SUFFICES ASSUME NEW r \in net \ gone, r.flag \in E, r.flag = q.flag PROVE FALSE
        OBVIOUS
      <2>2. q.flag \in view.busy
        BY <2>1 DEF Frame
      <2>3. PICK g \in gone : g.flag = q.flag
        BY <2>1, <2>2
      <2>4. g = r
        BY <2>1, <2>3 DEF Frame
      <2> QED BY <2>1, <2>4
    <1>7. \A r, s \in net' : r.flag = s.flag /\ r.flag \in E => r = s
      BY <1>4, <1>6 DEF Frame
    <1>8. net' \subseteq R
      BY <1>1 DEF Frame
    <1>9. Frame(R, E)'
      BY <1>2, <1>3, <1>5, <1>7, <1>8 DEF Frame
    <1>10. ASSUME Covered, NEW f \in view'.busy \ {"due"}
           PROVE  \E r \in net' : r.flag = f
      <2>1. CASE f = q.flag
        BY <2>1, <1>1
      <2>2. CASE f # q.flag
        <3>1. PICK r \in net : r.flag = f
          BY <1>10, <2>2 DEF Covered, HasRequest
        <3> QED BY <3>1, <2>2, <1>1, <1>10
      <2> QED BY <2>1, <2>2
    <1>11. Covered => Covered'
      BY <1>10 DEF Covered, HasRequest
    <1> QED BY <1>9, <1>11

\* An answer is followed by one reading.
LEMMA FrameReread ==
    ASSUME NEW R, NEW E, Frame(R, E), Moves,
           NEW r \in net, NEW q \in R, q.kind = "read", Sends({r}, {q}),
           view'.busy \subseteq view.busy \cup {q.flag},
           r.flag \in view'.busy => r.flag = q.flag,
           \A f \in E : f \in view.busy /\ f # r.flag => f \in view'.busy,
           q.flag \in E => q.flag = r.flag /\ (q.flag \in view.busy => q.flag \in view'.busy)
    PROVE  Frame(R, E)' /\ (Covered => Covered')
    <1> DEFINE gone == {r}
               sent == {q}
    <1>1. /\ gone \in SUBSET net /\ sent \in SUBSET R /\ q \in sent /\ Sends(gone, sent)
          /\ \A x \in sent : x.kind = "read" /\ (x = q \/ x.flag \notin E)
      OBVIOUS
    <1>2. \A g \in gone : g.flag \in view'.busy \ {"due"} => g.flag = q.flag
      OBVIOUS
    <1>3. /\ \A f \in E : f \in view.busy /\ f \notin view'.busy => \E g \in gone : g.flag = f
          /\ q.flag \in E => \E g \in gone : g.flag = q.flag
      OBVIOUS
    <1>4. q.flag \in E => q.flag \in view'.busy
      BY DEF Frame
    <1>5. q.flag \in E => /\ q.flag \in view'.busy
                          /\ q.flag \in view.busy => \E g \in gone : g.flag = q.flag
      BY <1>3, <1>4
    <1>6. \A f \in E : f \in view.busy /\ f \notin view'.busy => \E g \in gone : g.flag = f
      BY <1>3
    <1> HIDE DEF gone, sent
    <1> QED BY <1>1, <1>2, <1>5, <1>6, FrameFollowed

\* One request is sent.
LEMMA FrameSent ==
    ASSUME NEW R, NEW E, Frame(R, E), Moves,
           NEW q \in R, q.kind = "write" => MayWrite(q.call), Sends({}, {q}),
           view'.busy \subseteq view.busy \cup {q.flag},
           \A f \in E : f \in view.busy => f \in view'.busy,
           q.flag \in E => q.flag \in view'.busy /\ q.flag \notin view.busy
    PROVE  Frame(R, E)' /\ (Covered => Covered')
    <1>1. net' = net \cup {q}
      BY DEF Sends
    <1>2. inputs' \in 0..MaxInputs /\ failures' \in 0..MaxFailures /\ db' = db
      BY MovesCounted DEF Frame
    <1>3. WritesBounded'
      <2>1. CASE q.kind = "write"
        <3>1. SentWrites(net') \subseteq SentWrites(net) \cup {q}
          BY <1>1 DEF SentWrites
        <3> QED BY <2>1, <3>1, <1>2, OneMoreWrite DEF Frame
      <2>2. CASE q.kind # "write"
        <3>1. SentWrites(net') \subseteq SentWrites(net)
          BY <1>1, <2>2 DEF SentWrites
        <3> QED BY <3>1, <1>2, FewerWrites DEF Frame
      <2> QED BY <2>1, <2>2
    <1>4. \A r \in net' : r.flag \in E => r.flag \in view'.busy
      BY <1>1 DEF Frame
    <1>5. \A r, s \in net' : r.flag = s.flag /\ r.flag \in E => r = s
      BY <1>1 DEF Frame
    <1>6. Frame(R, E)'
      BY <1>1, <1>2, <1>3, <1>4, <1>5 DEF Frame
    <1>7. Covered => Covered'
      BY <1>1 DEF Covered, HasRequest
    <1> QED BY <1>6, <1>7

\* A form is taken away while it is sent: what it sent lowers nothing any more.
Unflagged(r, F) == IF r.flag \in F THEN [r EXCEPT !.flag = ""] ELSE r

\* Requests that lose their flag stay among R.
Orphanable(R, F) ==
    \A r \in R : /\ DOMAIN r = {"kind", "call", "arg", "at", "flag", "n", "step", "saw"}
                 /\ r.flag \in F => [r EXCEPT !.flag = ""] \in R
Orphaned(F, gone, sent) == net' = {Unflagged(r, F) : r \in net \ gone} \cup sent
Readings(sent, E) == \A q \in sent : q.kind = "read" /\ q.flag \notin E
\* A flag is lowered with its request, and is up for one that was sent or stays.
LoweredWith(E, F, gone) ==
    \A f \in E : f \in view.busy /\ f \notin view'.busy => f \in F \/ \E g \in gone : g.flag = f
UpFor(F, gone, sent) ==
    \A f \in view'.busy \ {"due"} :
        (\E q \in sent : q.flag = f) \/ (f \in view.busy \ F /\ \A g \in gone : g.flag # f)

LEMMA FrameOrphaned ==
    ASSUME NEW R, NEW E, NEW F, Frame(R, E), Moves, "" \notin E, Orphanable(R, F),
           NEW gone \in SUBSET net, NEW sent \in SUBSET R, Readings(sent, E),
           Orphaned(F, gone, sent), LoweredWith(E, F, gone), UpFor(F, gone, sent)
    PROVE  Frame(R, E)' /\ (Covered => Covered')
    <1> USE DEF Orphanable, Readings, Orphaned, LoweredWith, UpFor
    <1>1. inputs' \in 0..MaxInputs /\ failures' \in 0..MaxFailures /\ db' = db
      BY MovesCounted DEF Frame
    <1>2. \A r \in net : r \in R /\ Unflagged(r, F) \in R
      BY DEF Frame, Unflagged
    <1>3. WritesBounded'
      <2> DEFINE marked == [r \in net |-> Unflagged(r, F)]
      <2>1. SentWrites(net') \subseteq {marked[r] : r \in SentWrites(net)}
        <3>1. SUFFICES ASSUME NEW w \in SentWrites(net')
                       PROVE  \E r \in SentWrites(net) : w = marked[r]
          OBVIOUS
        <3>2. w \in net' /\ w.kind = "write" /\ w.step = "sent"
          BY <3>1 DEF SentWrites
        <3>3. PICK r \in net : w = Unflagged(r, F)
          BY <3>2
        <3>4. r.kind = "write" /\ r.step = "sent"
          <4>1. DOMAIN r = {"kind", "call", "arg", "at", "flag", "n", "step", "saw"}
            BY DEF Frame
          <4> QED BY <3>2, <3>3, <4>1 DEF Unflagged
        <3> QED BY <3>3, <3>4 DEF SentWrites
      <2> HIDE DEF marked
      <2> QED BY <2>1, <1>1, MarkedWrites DEF Frame
    <1>4. \A r \in net' : r.flag \in E => r \in net \ gone /\ r.flag \notin F
      <2>1. SUFFICES ASSUME NEW r \in net', r.flag \in E
                     PROVE  r \in net \ gone /\ r.flag \notin F
        OBVIOUS
      <2>2. PICK s \in net \ gone : r = Unflagged(s, F)
        BY <2>1
      <2>3. s.flag \notin F
        <3>1. SUFFICES ASSUME s.flag \in F PROVE r.flag = ""
          BY <2>1
        <3> QED BY <2>2, <3>1, <1>2 DEF Unflagged
      <2> QED BY <2>2, <2>3 DEF Unflagged
    <1>5. ASSUME NEW r \in net', r.flag \in E
          PROVE  r.flag \in view'.busy
      <2>1. r \in net \ gone /\ r.flag \notin F /\ r.flag \in view.busy
        BY <1>4, <1>5 DEF Frame
      <2>2. \A g \in gone : g.flag # r.flag
        BY <2>1, <1>5 DEF Frame
      <2> QED BY <2>1, <2>2, <1>5
    <1>6. \A r, s \in net' : r.flag = s.flag /\ r.flag \in E => r = s
      BY <1>4 DEF Frame
    <1>7. net' \subseteq R
      BY <1>2
    <1>8. Frame(R, E)'
      BY <1>1, <1>3, <1>5, <1>6, <1>7 DEF Frame
    <1>9. ASSUME Covered, NEW f \in view'.busy \ {"due"}
          PROVE  \E r \in net' : r.flag = f
      <2>1. CASE \E q \in sent : q.flag = f
        BY <2>1
      <2>2. CASE f \in view.busy \ F /\ \A g \in gone : g.flag # f
        <3>1. PICK r \in net : r.flag = f
          BY <1>9, <2>2 DEF Covered, HasRequest
        <3>2. r \in net \ gone /\ Unflagged(r, F) = r
          BY <3>1, <2>2 DEF Unflagged
        <3> QED BY <3>1, <3>2
      <2> QED BY <2>1, <2>2, <1>9
    <1>10. Covered => Covered'
      BY <1>9 DEF Covered, HasRequest
    <1> QED BY <1>8, <1>10

\* A set of requests that says nothing of their answers.
Unanswered(R) ==
    \A r \in R, step \in Steps, saw \in Versions : [r EXCEPT !.step = step, !.saw = saw] \in R

LEMMA FrameServed ==
    ASSUME NEW subjects, NEW calls, NEW flags, NEW E,
           NEW R \in SUBSET Requests(subjects, calls, flags), Unanswered(R), Frame(R, E),
           NEW groups, Network(groups)
    PROVE  /\ Frame(R, E)' /\ (Covered => Covered') /\ UNCHANGED <<view, inputs>>
           /\ \E r \in net : \E step, saw : Served(r, step, saw)
    <1>1. /\ WritesBounded' /\ failures' \in 0..MaxFailures /\ UNCHANGED <<view, inputs>>
          /\ \E r \in net : \E step, saw : Served(r, step, saw)
      <2>1. net \subseteq Requests(subjects, calls, flags)
        BY DEF Frame
      <2> QED BY <2>1, NetworkStep DEF Frame
    <1>2. PICK r \in net : \E step, saw : Served(r, step, saw)
      BY <1>1
    <1>3. PICK step, saw : Served(r, step, saw)
      BY <1>2
    <1> DEFINE s == [r EXCEPT !.step = step, !.saw = saw]
    <1>4. net' = (net \ {r}) \cup {s} /\ step \in Steps /\ saw \in Versions
      BY <1>3 DEF Served
    <1>5. s \in R /\ s.flag = r.flag
      BY <1>4 DEF Frame, Unanswered, Requests
    <1> HIDE DEF s
    <1>6. net' \subseteq R
      BY <1>4, <1>5 DEF Frame
    <1>7. /\ \A q \in net' : q.flag \in E => q.flag \in view'.busy
          /\ \A p, q \in net' : p.flag = q.flag /\ p.flag \in E => p = q
      BY <1>1, <1>4, <1>5 DEF Frame
    <1>8. Covered => Covered'
      BY <1>1, <1>4, <1>5 DEF Covered, HasRequest
    <1> QED BY <1>1, <1>6, <1>7, <1>8 DEF Frame

\* Before the user has done anything, with nothing in flight that a flag guards.
LEMMA FrameStart ==
    ASSUME NEW R, NEW E, Start, net \subseteq R,
           \A r \in net : r.kind = "read" /\ r.flag \notin E
    PROVE  Frame(R, E)
    <1>1. SentWrites(net) = {}
      BY DEF SentWrites
    <1> QED BY <1>1, StartTyped DEF Frame

\* The page and its requests stay as they are.
LEMMA FrameStutters ==
    ASSUME NEW R, NEW E, Frame(R, E), UNCHANGED screen
    PROVE  Frame(R, E)' /\ (Covered => Covered')
    <1>1. UNCHANGED <<view, net, inputs, failures, db>>
      BY DEF screen
    <1>2. WritesBounded'
      BY <1>1, FewerWrites DEF Frame
    <1>3. Covered => Covered'
      BY <1>1 DEF Covered, HasRequest
    <1> QED BY <1>1, <1>2, <1>3 DEF Frame

=============================================================================
