--------------------------- MODULE Screens_proofs ----------------------------
(***************************************************************************)
(* The pages of the platform, and what every page of the hotel or of the   *)
(* platform keeps to: the theorems of Screens.                             *)
(***************************************************************************)
EXTENDS Screens, HotelPages_proofs

(* The commercial contracts *)

SubsSubjects == Targets \cup {NoWord} \cup (Targets \X Targets)
SubsCalls == {"load"} \cup SubsWrites
SubsFlags == {"page"} \cup SubsWrites
SubsCall(r) ==
    /\ r.at \in Targets \X Targets
    /\ r.call = "load" => r.kind = "read" /\ r.flag = "page"
    /\ r.call \in SubsWrites => r.flag = r.call
SubsRequests == {r \in Requests(SubsSubjects, SubsCalls, SubsFlags) : SubsCall(r)}

SubsInv == view \in SubsViews /\ Frame(SubsRequests, SubsWrites) /\ Covered

LEMMA SubsSubject ==
    /\ None \in SubsSubjects /\ NoWord \in SubsSubjects /\ None \in Targets
    /\ Targets \subseteq SubsSubjects /\ Targets \X Targets \subseteq SubsSubjects
    /\ Items \subseteq Targets /\ "page" \notin SubsWrites /\ "load" \notin SubsWrites
    BY DEF SubsSubjects, Targets, SubsWrites, SubsForms

LEMMA SubsStart ==
    ASSUME SubsInit
    PROVE  SubsInv
    <1> DEFINE q == Keeping(Request("read", "load", NoWord, "page", 1), <<None, None>>)
    <1>1. /\ q \in Requests(SubsSubjects, SubsCalls, SubsFlags)
          /\ Asks(q, "read", "load", NoWord, <<None, None>>, "page")
      <2>1. "load" \in SubsCalls /\ "page" \in SubsFlags /\ <<None, None>> \in SubsSubjects
        BY SubsSubject DEF SubsCalls, SubsFlags
      <2> QED BY <2>1, SubsSubject, FirstAsked
    <1>2. net = {q} /\ Start
      BY DEF SubsInit, Mounted
    <1> HIDE DEF q
    <1>3. q \in SubsRequests /\ q.kind = "read" /\ q.flag = "page"
      BY <1>1, SubsSubject DEF SubsRequests, SubsCall, Asks
    <1>4. Frame(SubsRequests, SubsWrites)
      <2>1. net \subseteq SubsRequests /\ \A r \in net : r.kind = "read" /\ r.flag \notin SubsWrites
        BY <1>2, <1>3, SubsSubject
      <2> QED BY <1>2, <2>1, FrameStart
    <1>5. view \in SubsViews /\ view.busy = {"page"}
      <2>1. 0 \in Versions
        BY MaxWritesNat DEF Versions
      <2>2. [f \in SubsForms |-> IF f = "renew" THEN "complete" ELSE "blank"] \in [SubsForms -> Drafts]
        BY DEF Drafts
      <2> QED BY <2>1, <2>2, SubsSubject DEF SubsInit, SubsViews
    <1>6. Covered
      BY <1>2, <1>3, <1>5 DEF Covered, HasRequest
    <1> QED BY <1>4, <1>5, <1>6 DEF SubsInv

LEMMA SubsFacts ==
    ASSUME SubsInv
    PROVE  /\ view \in SubsViews /\ Frame(SubsRequests, SubsWrites) /\ Covered
           /\ \A r \in net : /\ r \in Requests(SubsSubjects, SubsCalls, SubsFlags)
                             /\ SubsCall(r) /\ r.saw \in Versions
    <1>1. \A r \in net : r \in Requests(SubsSubjects, SubsCalls, SubsFlags) /\ SubsCall(r)
      BY DEF SubsInv, Frame, SubsRequests
    <1> QED BY <1>1 DEF SubsInv, Requests

-----------------------------------------------------------------------------
(* What is selected *)

LEMMA SubsDraft ==
    ASSUME NEW v \in SubsViews, NEW f \in SubsForms, NEW d \in Drafts
    PROVE  [v EXCEPT !.forms[f] = d] \in SubsViews /\ [v EXCEPT !.forms[f] = d].busy = v.busy
    BY DEF SubsViews

LEMMA SubsFilledTyped ==
    ASSUME NEW v \in SubsViews
    PROVE  SubsFilled(v) \in SubsViews /\ SubsFilled(v).busy = v.busy
    <1>1. {"sub", "change", "renew"} \subseteq SubsForms /\ {"blank", "complete"} \subseteq Drafts
      BY DEF SubsForms, Drafts
    <1> DEFINE a == [v EXCEPT !.forms["sub"] = "blank", !.forms["change"] = "blank"]
               b == [v EXCEPT !.forms["sub"] = "complete", !.forms["change"] = "complete",
                              !.forms["renew"] = "complete", !.base = v.lists]
    <1>2. a \in SubsViews /\ a.busy = v.busy
      BY <1>1 DEF SubsViews
    <1>3. b \in SubsViews /\ b.busy = v.busy
      BY <1>1 DEF SubsViews
    <1>4. SubsFilled(v) = a \/ SubsFilled(v) = b
      BY DEF SubsFilled
    <1> HIDE DEF a, b
    <1> QED BY <1>2, <1>3, <1>4

LEMMA SubsSelectedTyped ==
    ASSUME NEW v \in SubsViews
    PROVE  SubsSelected(v) \in SubsViews /\ SubsSelected(v).busy = v.busy
    BY SubsFilledTyped DEF SubsSelected

LEMMA SubsPlannedTyped ==
    ASSUME NEW v \in SubsViews
    PROVE  SubsPlanned(v) \in SubsViews /\ SubsPlanned(v).busy = v.busy
    <1>1. "plan" \in SubsForms /\ {"blank", "complete"} \subseteq Drafts
      BY DEF SubsForms, Drafts
    <1>2. ASSUME NEW d \in {"blank", "complete"}, SubsPlanned(v) = [v EXCEPT !.forms["plan"] = d]
          PROVE  SubsPlanned(v) \in SubsViews /\ SubsPlanned(v).busy = v.busy
      <2>1. /\ [v EXCEPT !.forms["plan"] = d] \in SubsViews
            /\ [v EXCEPT !.forms["plan"] = d].busy = v.busy
        BY <1>1, <1>2, SubsDraft
      <2> QED BY <1>2, <2>1
    <1>3. \/ SubsPlanned(v) = v
          \/ SubsPlanned(v) = [v EXCEPT !.forms["plan"] = "blank"]
          \/ SubsPlanned(v) = [v EXCEPT !.forms["plan"] = "complete"]
      BY DEF SubsPlanned
    <1> QED BY <1>2, <1>3

LEMMA SubsPreferTyped ==
    ASSUME NEW i, NEW S \in SUBSET Items
    PROVE  SubsPrefer(i, S) \in Targets
    <1>1. SubsFirst(S) \in Targets
      <2>1. CASE S = {}
        BY <2>1 DEF SubsFirst, Targets
      <2>2. CASE S # {}
        <3>1. \E i_1 \in S : TRUE
          BY <2>2
        <3>2. (CHOOSE i_1 \in S : TRUE) \in S
          BY <3>1
        <3> QED BY <2>2, <3>2 DEF SubsFirst, Targets
      <2> QED BY <2>1, <2>2
    <1> QED BY <1>1 DEF SubsPrefer, Targets

LEMMA SubsLoadTyped ==
    ASSUME view \in SubsViews, NEW r, r.saw \in Versions, NEW known \in SUBSET Items, NEW grown
    PROVE  /\ SubsLoad(r, known, grown) \in SubsViews
           /\ SubsLoad(r, known, grown).busy = view.busy
    <1> DEFINE v == [view EXCEPT !.known = known, !.lists = r.saw,
                                 !.sub = SubsPrefer(r.at[1], known),
                                 !.plan = SubsPrefer(r.at[2], Items)]
               w == IF grown THEN SubsFilled(v) ELSE SubsSelected(v)
    <1>1. v \in SubsViews /\ v.busy = view.busy
      <2>1. SubsPrefer(r.at[1], known) \in Targets /\ SubsPrefer(r.at[2], Items) \in Targets
        BY SubsPreferTyped
      <2> QED BY <2>1 DEF SubsViews
    <1>2. SubsLoad(r, known, grown) = SubsPlanned(w)
      BY DEF SubsLoad
    <1> HIDE DEF v
    <1>3. w \in SubsViews /\ w.busy = view.busy
      BY <1>1, SubsFilledTyped, SubsSelectedTyped
    <1> HIDE DEF w
    <1> QED BY <1>2, <1>3, SubsPlannedTyped

-----------------------------------------------------------------------------
(* The steps of the page *)

LEMMA SubsQuiet ==
    ASSUME SubsInv, UNCHANGED net, Moves, view' \in SubsViews, view'.busy = view.busy
    PROVE  SubsInv'
    <1>1. Frame(SubsRequests, SubsWrites) /\ Covered
      BY DEF SubsInv
    <1>2. Frame(SubsRequests, SubsWrites)' /\ Covered'
      BY <1>1, FrameQuiet
    <1> QED BY <1>2 DEF SubsInv

LEMMA SubsSendKeeps ==
    ASSUME SubsInv, NEW call \in SubsWrites, call \notin view.busy, NEW arg \in Targets,
           SubsSend(call, arg)
    PROVE  SubsInv'
    <1> DEFINE at == <<SubsShown(view), view.plan>>
               q == Keeping(Write(call, arg, call), at)
    <1>1. view \in SubsViews /\ Frame(SubsRequests, SubsWrites) /\ Covered
      BY SubsFacts
    <1>2. at \in Targets \X Targets
      BY <1>1, SubsSubject DEF SubsViews, SubsShown
    <1>3. MayWrite(call) /\ Sends({}, {q}) /\ Moves
      BY DEF SubsSend, Moves
    <1>4. view' = [view EXCEPT !.busy = @ \cup {call}, !.status = "none"]
      BY DEF SubsSend
    <1> HIDE DEF at
    <1>5. /\ q \in Requests(SubsSubjects, SubsCalls, SubsFlags)
          /\ Asks(q, "write", call, arg, at, call)
      <2>1. call \in SubsCalls /\ call \in SubsFlags /\ Unsent(call) /\ at \in SubsSubjects
        BY <1>2, <1>3, SubsSubject DEF SubsCalls, SubsFlags, MayWrite
      <2> QED BY <2>1, SubsSubject, NewAsked
    <1> HIDE DEF q
    <1>6. q \in SubsRequests /\ q.flag = call /\ MayWrite(q.call)
      BY <1>2, <1>3, <1>5, SubsSubject DEF SubsRequests, SubsCall, Asks
    <1>7. view' \in SubsViews /\ view'.busy = view.busy \cup {call}
      BY <1>1, <1>4 DEF SubsViews
    <1>8. Frame(SubsRequests, SubsWrites)' /\ Covered'
      BY <1>1, <1>3, <1>6, <1>7, FrameSent
    <1> QED BY <1>7, <1>8 DEF SubsInv

LEMMA SubsSelectsKeep ==
    ASSUME SubsInv, NEW i \in Items,
           SubsSelect(i) \/ SubsSelectPlan(i)
    PROVE  SubsInv'
    <1>1. view \in SubsViews /\ i \in Targets
      BY SubsSubject DEF SubsInv
    <1>2. UNCHANGED net /\ Moves
      BY DEF Moves, SubsSelect, SubsSelectPlan
    <1>3. CASE SubsSelect(i)
      <2> DEFINE v == [view EXCEPT !.sub = i]
      <2>1. v \in SubsViews /\ v.busy = view.busy
        BY <1>1 DEF SubsViews
      <2>2. view' = SubsSelected(v)
        BY <1>3 DEF SubsSelect
      <2> HIDE DEF v
      <2> QED BY <1>2, <2>1, <2>2, SubsSelectedTyped, SubsQuiet
    <1>5. CASE SubsSelectPlan(i)
      <2> DEFINE v == [view EXCEPT !.plan = i]
      <2>1. v \in SubsViews /\ v.busy = view.busy
        BY <1>1 DEF SubsViews
      <2>2. view' = SubsPlanned(v)
        BY <1>5 DEF SubsSelectPlan
      <2> HIDE DEF v
      <2> QED BY <1>2, <2>1, <2>2, SubsPlannedTyped, SubsQuiet
    <1> QED BY <1>3, <1>5

\* The choices that name no row.
LEMMA SubsChoicesKeep ==
    ASSUME SubsInv, SubsNew \/ SubsNewPlan \/ SubsForget
    PROVE  SubsInv'
    <1>1. view \in SubsViews
      BY DEF SubsInv
    <1>2. UNCHANGED net /\ Moves
      BY DEF Moves, SubsNew, SubsNewPlan, SubsForget
    <1>4. CASE SubsNew
      <2> DEFINE v == [view EXCEPT !.sub = None]
                 w == SubsSelected(v)
      <2>1. v \in SubsViews /\ v.busy = view.busy
        BY <1>1, SubsSubject DEF SubsViews
      <2>2. view' = [w EXCEPT !.status = "none"]
        BY <1>4 DEF SubsNew
      <2> HIDE DEF v
      <2>3. w \in SubsViews /\ w.busy = view.busy
        BY <2>1, SubsSelectedTyped
      <2> HIDE DEF w
      <2>4. view' \in SubsViews /\ view'.busy = view.busy
        BY <2>2, <2>3 DEF SubsViews
      <2> QED BY <1>2, <2>4, SubsQuiet
    <1>6. CASE SubsNewPlan
      <2> DEFINE v == [view EXCEPT !.plan = None, !.status = "none"]
      <2>1. v \in SubsViews /\ v.busy = view.busy
        BY <1>1, SubsSubject DEF SubsViews
      <2>2. view' = SubsPlanned(v)
        BY <1>6 DEF SubsNewPlan
      <2> HIDE DEF v
      <2> QED BY <1>2, <2>1, <2>2, SubsPlannedTyped, SubsQuiet
    <1>7. CASE SubsForget
      <2>1. view' \in SubsViews /\ view'.busy = view.busy
        BY <1>1, <1>7 DEF SubsForget, SubsViews
      <2> QED BY <1>2, <2>1, SubsQuiet
    <1> QED BY <1>4, <1>6, <1>7

LEMMA SubsFormsKeep ==
    ASSUME SubsInv, SubsContractForm \/ SubsPlanForm \/ SubsCommercial \/ SubsCycle
    PROVE  SubsInv'
    <1>1. view \in SubsViews /\ SubsShown(view) \in Targets /\ view.plan \in Targets
          /\ None \in Targets
      BY SubsSubject DEF SubsInv, SubsViews, SubsShown
    <1>2. ASSUME NEW f \in SubsForms, NEW d \in {"partial", "complete"}, SubsEdit(f, d)
          PROVE  SubsInv'
      <2>1. view' = [view EXCEPT !.forms[f] = d] /\ UNCHANGED net /\ Moves
        BY <1>2 DEF SubsEdit, Moves
      <2>2. d \in Drafts
        BY DEF Drafts
      <2>3. view' \in SubsViews /\ view'.busy = view.busy
        BY <1>1, <2>1, <2>2, SubsDraft
      <2> QED BY <2>1, <2>3, SubsQuiet
    <1>3. ASSUME view' = [view EXCEPT !.status = "error"] \/ (\E b \in BOOLEAN : view' = [view EXCEPT !.asking = b]),
                 UNCHANGED net, Input
          PROVE  SubsInv'
      <2>1. view' \in SubsViews /\ view'.busy = view.busy
        BY <1>1, <1>3 DEF SubsViews
      <2>2. Moves
        BY <1>3 DEF Moves
      <2> QED BY <1>3, <2>1, <2>2, SubsQuiet
    <1>4. {"sub", "plan", "renew", "change"} \subseteq SubsForms
          /\ {"sub", "plan", "renew", "change", "cycle"} \subseteq SubsWrites
      BY DEF SubsForms, SubsWrites
    <1>5. CASE SubsContractForm
      BY <1>1, <1>2, <1>4, <1>5, SubsChoicesKeep, SubsSendKeeps
         DEF SubsContractForm, SubsSubmit, SubsTyping
    <1>6. CASE SubsPlanForm
      BY <1>1, <1>2, <1>3, <1>4, <1>6, SubsChoicesKeep, SubsSendKeeps
         DEF SubsPlanForm, SubsSubmitPlan, SubsTyping
    <1>7. CASE SubsCommercial
      BY <1>1, <1>2, <1>4, <1>7, SubsSendKeeps
         DEF SubsCommercial, SubsRenew, SubsChangePlan, SubsTyping
    <1>8. CASE SubsCycle
      BY <1>1, <1>3, <1>4, <1>8, SubsSendKeeps
         DEF SubsCycle, SubsAskCycle, SubsGiveUp, SubsRunCycle
    <1> QED BY <1>5, <1>6, <1>7, <1>8

LEMMA SubsAnswersKeep ==
    ASSUME SubsInv, NEW r \in net, SubsLoaded(r) \/ SubsPosted(r) \/ SubsReloaded(r)
    PROVE  SubsInv'
    <1>1. /\ view \in SubsViews /\ Frame(SubsRequests, SubsWrites) /\ Covered
          /\ r \in Requests(SubsSubjects, SubsCalls, SubsFlags)
          /\ SubsCall(r) /\ r.saw \in Versions
      BY SubsFacts
    <1>2. Moves
      BY DEF Moves, SubsLoaded, SubsPosted, SubsReloaded
    <1>3. ASSUME Sends({r}, {}), view' \in SubsViews, view'.busy = view.busy \ {r.flag}
          PROVE  SubsInv'
      <2>1. \A f \in SubsWrites : f \in view.busy /\ f # r.flag => f \in view'.busy
        BY <1>3
      <2>2. Frame(SubsRequests, SubsWrites)' /\ Covered'
        BY <1>1, <1>2, <1>3, <2>1, FrameAnswered
      <2> QED BY <1>3, <2>2 DEF SubsInv
    <1>4. ASSUME NEW f, Sends({r}, {}), r.flag = f,
                 view' = [view EXCEPT !.busy = @ \ {f}, !.status = "error"]
          PROVE  SubsInv'
      <2>1. view' \in SubsViews /\ view'.busy = view.busy \ {f}
        BY <1>1, <1>4 DEF SubsViews
      <2> QED BY <1>3, <1>4, <2>1
    <1>5. CASE SubsLoaded(r)
      <2>1. r.flag = "page" /\ Sends({r}, {})
        BY <1>1, <1>5 DEF SubsLoaded, Reads, Answered, SubsCall
      <2>2. CASE r.step = "served"
        <3>1. PICK known \in SUBSET Items :
                 view' = [SubsLoad(r, known, TRUE) EXCEPT !.busy = @ \ {"page"}]
          BY <1>5, <2>2 DEF SubsLoaded
        <3>2. SubsLoad(r, known, TRUE) \in SubsViews /\ SubsLoad(r, known, TRUE).busy = view.busy
          BY <1>1, SubsLoadTyped
        <3>3. view' \in SubsViews /\ view'.busy = view.busy \ {"page"}
          BY <3>1, <3>2 DEF SubsViews
        <3> QED BY <1>3, <2>1, <3>3
      <2>3. CASE r.step # "served"
        <3>1. view' = [view EXCEPT !.busy = @ \ {"page"}, !.status = "error"]
          BY <1>5, <2>3 DEF SubsLoaded
        <3> QED BY <1>4, <2>1, <3>1
      <2> QED BY <2>2, <2>3
    <1>6. CASE SubsReloaded(r)
      <2>1. Sends({r}, {})
        BY <1>6 DEF SubsReloaded
      <2>2. CASE r.step = "served"
        <3>1. PICK known \in SUBSET Items, grown \in BOOLEAN :
                 view' = [SubsLoad(r, known, grown) EXCEPT !.busy = @ \ {r.flag},
                                                           !.asking = @ /\ r.call # "cycle"]
          BY <1>6, <2>2 DEF SubsReloaded
        <3> DEFINE v == SubsLoad(r, known, grown)
        <3>2. v \in SubsViews /\ v.busy = view.busy
          BY <1>1, SubsLoadTyped
        <3>3. PICK b : b = (v.asking /\ r.call # "cycle")
          OBVIOUS
        <3>4. b \in BOOLEAN
          BY <3>3
        <3>5. view' = [v EXCEPT !.busy = @ \ {r.flag}, !.asking = b]
          BY <3>1, <3>3
        <3> HIDE DEF v
        <3>6. view' \in SubsViews /\ view'.busy = view.busy \ {r.flag}
          BY <3>2, <3>4, <3>5 DEF SubsViews
        <3> QED BY <1>3, <2>1, <3>6
      <2>3. CASE r.step # "served"
        <3>1. view' = [view EXCEPT !.busy = @ \ {r.flag}, !.status = "error"]
          BY <1>6, <2>3 DEF SubsReloaded
        <3> QED BY <1>4, <2>1, <3>1
      <2> QED BY <2>2, <2>3
    <1>7. CASE SubsPosted(r) /\ r.step # "served"
      <2>1. view' = [view EXCEPT !.busy = @ \ {r.flag}, !.status = "error"] /\ Sends({r}, {})
        BY <1>7 DEF SubsPosted
      <2> QED BY <1>4, <2>1
    <1>8. CASE SubsPosted(r) /\ r.step = "served"
      <2>1. PICK i \in Items : Sends({r}, {SubsPreferring(r, i)})
        BY <1>8 DEF SubsPosted
      <2> DEFINE q == SubsPreferring(r, i)
      <2>2. r.call \in SubsWrites /\ r.flag = r.call
        BY <1>1, <1>8 DEF SubsPosted, Wrote, Answered, SubsCall
      <2>3. PICK at : q = [Reread(r) EXCEPT !.at = at] /\ at \in Targets \X Targets
        <3>1. /\ <<i, r.at[2]>> \in Targets \X Targets /\ <<r.at[1], i>> \in Targets \X Targets
              /\ r.at \in Targets \X Targets
          BY <1>1, SubsSubject DEF SubsCall
        <3> QED BY <3>1 DEF SubsPreferring
      <2>4. /\ Reread(r) \in Requests(SubsSubjects, SubsCalls, SubsFlags)
            /\ Asks(Reread(r), "read", r.call, r.arg, r.at, r.flag)
        BY <1>1, AskedAgain
      <2>5. Sends({r}, {q})
        BY <2>1
      <2> HIDE DEF q
      <2>6. /\ q \in Requests(SubsSubjects, SubsCalls, SubsFlags)
            /\ Asks(q, "read", r.call, r.arg, at, r.flag)
        <3>1. at \in SubsSubjects
          BY <2>3, SubsSubject
        <3> QED BY <2>3, <2>4, <3>1 DEF Requests, Asks
      <2>7. q \in SubsRequests /\ q.kind = "read" /\ q.flag = r.flag
        BY <2>2, <2>3, <2>6, SubsSubject DEF SubsRequests, SubsCall, Asks
      <2>8. view' \in SubsViews /\ view'.busy = view.busy
        <3>1. \/ view' = view
              \/ view' = [view EXCEPT !.forms["renew"] = "complete"]
          BY <1>8 DEF SubsPosted
        <3>2. "renew" \in SubsForms /\ "complete" \in Drafts
          BY DEF SubsForms, Drafts
        <3> QED BY <1>1, <3>1, <3>2, SubsDraft
      <2>9. /\ view'.busy \subseteq view.busy \cup {q.flag}
            /\ r.flag \in view'.busy => r.flag = q.flag
            /\ q.flag \in SubsWrites
                 => q.flag = r.flag /\ (q.flag \in view.busy => q.flag \in view'.busy)
        BY <2>7, <2>8
      <2>10. \A f \in SubsWrites : f \in view.busy /\ f # r.flag => f \in view'.busy
        BY <2>8
      <2>11. Frame(SubsRequests, SubsWrites)' /\ Covered'
        BY <1>1, <1>2, <2>5, <2>7, <2>9, <2>10, FrameReread
      <2> QED BY <2>8, <2>11 DEF SubsInv
    <1> QED BY <1>5, <1>6, <1>7, <1>8

LEMMA SubsStep ==
    ASSUME SubsInv, SubsNext
    PROVE  SubsInv'
    BY SubsChoicesKeep, SubsSelectsKeep, SubsFormsKeep, SubsAnswersKeep
       DEF SubsNext, SubsContracts, SubsPlans

LEMMA SubsServed ==
    ASSUME SubsInv, NEW groups, Network(groups)
    PROVE  SubsInv' /\ UNCHANGED <<view, inputs>>
    <1>1. /\ SubsRequests \in SUBSET Requests(SubsSubjects, SubsCalls, SubsFlags)
          /\ Unanswered(SubsRequests)
      BY DEF SubsRequests, Unanswered, SubsCall, Requests
    <1>2. /\ Frame(SubsRequests, SubsWrites)' /\ Covered' /\ UNCHANGED <<view, inputs>>
      BY <1>1, FrameServed DEF SubsInv
    <1> QED BY <1>2 DEF SubsInv

LEMMA SubsStutters ==
    ASSUME SubsInv, UNCHANGED screen
    PROVE  SubsInv'
    <1>1. Frame(SubsRequests, SubsWrites)' /\ Covered' /\ UNCHANGED view
      BY FrameStutters DEF SubsInv, screen
    <1> QED BY <1>1 DEF SubsInv

-----------------------------------------------------------------------------
(* The settings of the hotel *)

SettingsSubjects == SettingsSections \cup {"unknown", None, NoWord}
SettingsCalls == {"settings", "save"}
SettingsFlags == {"load", "save"}
SettingsCall(r) ==
    /\ r.call = "settings" => r.kind = "read" /\ r.flag = "load"
    /\ r.call = "save" => r.kind = "write" /\ r.flag = "save"
SettingsRequests ==
    {r \in Requests(SettingsSubjects, SettingsCalls, SettingsFlags) : SettingsCall(r)}

SettingsInv == view \in SettingsViews /\ Frame(SettingsRequests, {"save"}) /\ Covered

LEMMA SettingsStart ==
    ASSUME SettingsInit
    PROVE  SettingsInv
    <1> DEFINE q == Request("read", "settings", NoWord, "load", 1)
    <1>1. /\ q \in Requests(SettingsSubjects, SettingsCalls, SettingsFlags)
          /\ Asks(q, "read", "settings", NoWord, None, "load")
      <2>1. /\ None \in SettingsSubjects /\ NoWord \in SettingsSubjects
            /\ "settings" \in SettingsCalls /\ "load" \in SettingsFlags
        BY DEF SettingsSubjects, SettingsCalls, SettingsFlags
      <2> QED BY <2>1, FirstAsked
    <1>2. net = {q} /\ Start
      BY DEF SettingsInit, Mounted
    <1> HIDE DEF q
    <1>3. q \in SettingsRequests /\ q.kind = "read" /\ q.flag = "load"
      BY <1>1 DEF SettingsRequests, SettingsCall, Asks
    <1>4. Frame(SettingsRequests, {"save"})
      <2>1. net \subseteq SettingsRequests /\ \A r \in net : r.kind = "read" /\ r.flag \notin {"save"}
        BY <1>2, <1>3
      <2> QED BY <1>2, <2>1, FrameStart
    <1>5. view \in SettingsViews /\ view.busy = {"load"}
      BY DEF SettingsInit, SettingsViews, SettingsValues, Statuses
    <1>6. Covered
      BY <1>2, <1>3, <1>5 DEF Covered, HasRequest
    <1> QED BY <1>4, <1>5, <1>6 DEF SettingsInv

LEMMA SettingsFacts ==
    ASSUME SettingsInv
    PROVE  /\ view \in SettingsViews /\ Frame(SettingsRequests, {"save"}) /\ Covered
           /\ view.section \in SettingsSubjects
           /\ \A r \in net : /\ r \in Requests(SettingsSubjects, SettingsCalls, SettingsFlags)
                             /\ SettingsCall(r)
    <1>1. \A r \in net : r \in Requests(SettingsSubjects, SettingsCalls, SettingsFlags)
                         /\ SettingsCall(r)
      BY DEF SettingsInv, Frame, SettingsRequests
    <1> QED BY <1>1 DEF SettingsInv, SettingsViews, SettingsSubjects

LEMMA SettingsUserKeeps ==
    ASSUME SettingsInv, SettingsForm \/ SettingsFrame
    PROVE  SettingsInv'
    <1>1. /\ view \in SettingsViews /\ Frame(SettingsRequests, {"save"}) /\ Covered
          /\ view.section \in SettingsSubjects
      BY SettingsFacts
    <1>2. ASSUME UNCHANGED net, Input, view' \in SettingsViews, view'.busy = view.busy
          PROVE  SettingsInv'
      <2>1. Moves
        BY <1>2 DEF Moves
      <2>2. Frame(SettingsRequests, {"save"})' /\ Covered'
        BY <1>1, <1>2, <2>1, FrameQuiet
      <2> QED BY <1>2, <2>2 DEF SettingsInv
    <1>3. ASSUME NEW p \in SettingsParts, SettingsTyping(p)
          PROVE  SettingsInv'
      <2>1. PICK x \in {"edited", "wrong"} : SettingsEdit(p, x)
        BY <1>3 DEF SettingsTyping
      <2>2. view' = [view EXCEPT !.form[p] = x, !.status = "none"] /\ UNCHANGED net /\ Input
        BY <2>1 DEF SettingsEdit
      <2>3. view' \in SettingsViews /\ view'.busy = view.busy
        BY <1>1, <2>2 DEF SettingsViews, SettingsValues, Statuses
      <2> QED BY <1>2, <2>2, <2>3
    <1>4. ASSUME NEW l \in {"new", "removed"}, SettingsChooseLogo(l)
          PROVE  SettingsInv'
      <2>1. view' = [view EXCEPT !.logo = l] /\ UNCHANGED net /\ Input
        BY <1>4 DEF SettingsChooseLogo
      <2>2. view' \in SettingsViews /\ view'.busy = view.busy
        BY <1>1, <2>1 DEF SettingsViews
      <2> QED BY <1>2, <2>1, <2>2
    <1>5. CASE SettingsForm
      <2>1. {"general", "name", "reservations", "billing", "security", "appearance"}
              \subseteq SettingsParts
        BY DEF SettingsParts, SettingsSections
      <2> QED BY <1>3, <1>4, <1>5, <2>1
              DEF SettingsForm, SettingsGeneral, SettingsReservations, SettingsBilling,
                  SettingsSecurity, SettingsAppearance
    <1>6. ASSUME NEW s \in SettingsSections, SettingsOpen(s)
          PROVE  SettingsInv'
      <2>1. view' = [view EXCEPT !.section = s] /\ UNCHANGED net /\ Input
        BY <1>6 DEF SettingsOpen
      <2>2. view' \in SettingsViews /\ view'.busy = view.busy
        BY <1>1, <2>1 DEF SettingsViews
      <2> QED BY <1>2, <2>1, <2>2
    <1>7. CASE SettingsSave
      <2> DEFINE q == Write("save", view.section, "save")
      <2>1. CASE view' = [view EXCEPT !.status = "error"] /\ UNCHANGED net /\ Input
        <3>1. view' \in SettingsViews /\ view'.busy = view.busy
          BY <1>1, <2>1 DEF SettingsViews, Statuses
        <3> QED BY <1>2, <2>1, <3>1
      <2>2. CASE /\ "save" \notin view.busy /\ MayWrite("save") /\ Sends({}, {q}) /\ Input
                 /\ view' = [view EXCEPT !.busy = @ \cup {"save"}, !.status = "none"]
        <3>1. /\ q \in Requests(SettingsSubjects, SettingsCalls, SettingsFlags)
              /\ Asks(q, "write", "save", view.section, None, "save")
          <4>1. /\ "save" \in SettingsCalls /\ "save" \in SettingsFlags /\ Unsent("save")
                /\ None \in SettingsSubjects
            BY <2>2 DEF SettingsCalls, SettingsFlags, SettingsSubjects, MayWrite
          <4> QED BY <1>1, <4>1, NewAsked
        <3>2. Sends({}, {q}) /\ Moves
          BY <2>2 DEF Moves
        <3> HIDE DEF q
        <3>3. q \in SettingsRequests /\ q.flag = "save" /\ MayWrite(q.call)
          BY <2>2, <3>1 DEF SettingsRequests, SettingsCall, Asks
        <3>4. view' \in SettingsViews /\ view'.busy = view.busy \cup {"save"}
          BY <1>1, <2>2 DEF SettingsViews, Statuses
        <3>5. Frame(SettingsRequests, {"save"})' /\ Covered'
          BY <1>1, <2>2, <3>2, <3>3, <3>4, FrameSent
        <3> QED BY <3>4, <3>5 DEF SettingsInv
      <2> QED BY <1>7, <2>1, <2>2 DEF SettingsSave, SettingsEnabled
    <1> QED BY <1>5, <1>6, <1>7 DEF SettingsFrame

LEMMA SettingsAnswersKeep ==
    ASSUME SettingsInv, NEW r \in net, SettingsLoaded(r) \/ SettingsSaved(r)
    PROVE  SettingsInv'
    <1>1. /\ view \in SettingsViews /\ Frame(SettingsRequests, {"save"}) /\ Covered
          /\ SettingsCall(r)
      BY SettingsFacts
    <1>2. Moves /\ Sends({r}, {})
      BY DEF Moves, SettingsLoaded, SettingsSaved
    <1>3. ASSUME view' \in SettingsViews, view'.busy = view.busy \ {r.flag}
          PROVE  SettingsInv'
      <2>1. \A f \in {"save"} : f \in view.busy /\ f # r.flag => f \in view'.busy
        BY <1>3
      <2>2. Frame(SettingsRequests, {"save"})' /\ Covered'
        BY <1>1, <1>2, <1>3, <2>1, FrameAnswered
      <2> QED BY <1>3, <2>2 DEF SettingsInv
    <1>4. CASE SettingsLoaded(r)
      <2>1. r.flag = "load"
        BY <1>1, <1>4 DEF SettingsLoaded, Reads, Answered, SettingsCall
      <2>2. CASE r.step = "served"
        <3>1. view' = [[view EXCEPT !.busy = @ \ {"load"}]
                         EXCEPT !.form = [p \in SettingsParts |-> "saved"]]
          BY <1>4, <2>2 DEF SettingsLoaded, SettingsAllSaved
        <3>2. [p \in SettingsParts |-> "saved"] \in [SettingsParts -> SettingsValues]
          BY DEF SettingsValues
        <3>3. view' \in SettingsViews /\ view'.busy = view.busy \ {"load"}
          BY <1>1, <3>1, <3>2 DEF SettingsViews
        <3> QED BY <1>3, <2>1, <3>3
      <2>3. CASE r.step # "served"
        <3>1. view' = [view EXCEPT !.busy = @ \ {"load"}, !.status = "error"]
          BY <1>4, <2>3 DEF SettingsLoaded
        <3>2. view' \in SettingsViews /\ view'.busy = view.busy \ {"load"}
          BY <1>1, <3>1 DEF SettingsViews, Statuses
        <3> QED BY <1>3, <2>1, <3>2
      <2> QED BY <2>2, <2>3
    <1>5. CASE SettingsSaved(r)
      <2>1. r.flag = "save"
        BY <1>1, <1>5 DEF SettingsSaved, Wrote, Answered, SettingsCall
      <2>2. CASE r.step = "served"
        <3>1. view' = [[[view EXCEPT !.busy = @ \ {"save"}]
                         EXCEPT !.form = [p \in SettingsParts |-> "saved"]] EXCEPT !.logo = "kept"]
          BY <1>5, <2>2 DEF SettingsSaved, SettingsAllSaved
        <3>2. [p \in SettingsParts |-> "saved"] \in [SettingsParts -> SettingsValues]
          BY DEF SettingsValues
        <3>3. view' \in SettingsViews /\ view'.busy = view.busy \ {"save"}
          BY <1>1, <3>1, <3>2 DEF SettingsViews
        <3> QED BY <1>3, <2>1, <3>3
      <2>3. CASE r.step # "served"
        <3>1. view' = [[view EXCEPT !.busy = @ \ {"save"}] EXCEPT !.status = "error"]
          BY <1>5, <2>3 DEF SettingsSaved
        <3>2. view' \in SettingsViews /\ view'.busy = view.busy \ {"save"}
          BY <1>1, <3>1 DEF SettingsViews, Statuses
        <3> QED BY <1>3, <2>1, <3>2
      <2> QED BY <2>2, <2>3
    <1> QED BY <1>4, <1>5

LEMMA SettingsStep ==
    ASSUME SettingsInv, SettingsNext
    PROVE  SettingsInv'
    BY SettingsUserKeeps, SettingsAnswersKeep DEF SettingsNext

LEMMA SettingsServed ==
    ASSUME SettingsInv, NEW groups, Network(groups)
    PROVE  SettingsInv' /\ UNCHANGED <<view, inputs>>
    <1>1. /\ SettingsRequests \in SUBSET Requests(SettingsSubjects, SettingsCalls, SettingsFlags)
          /\ Unanswered(SettingsRequests)
      BY DEF SettingsRequests, Unanswered, SettingsCall, Requests
    <1>2. /\ Frame(SettingsRequests, {"save"})' /\ Covered' /\ UNCHANGED <<view, inputs>>
      BY <1>1, FrameServed DEF SettingsInv
    <1> QED BY <1>2 DEF SettingsInv

LEMMA SettingsStutters ==
    ASSUME SettingsInv, UNCHANGED screen
    PROVE  SettingsInv'
    <1>1. Frame(SettingsRequests, {"save"})' /\ Covered' /\ UNCHANGED view
      BY FrameStutters DEF SettingsInv, screen
    <1> QED BY <1>1 DEF SettingsInv

-----------------------------------------------------------------------------
(* The pages of the Super Root console *)

RootSubjects == Targets \cup {NoWord, "attach", "on", "off"}
RootCalls == {"rows", "tenants", "create", "switch", "change", "inspect", "attach"}
RootForms == {"create", "attach"}
RootFlags == {"", "page"} \cup RootForms
RootCall(r) ==
    /\ r.call = "rows" => r.kind = "read" /\ r.flag \in {"", "page"}
    /\ r.call \in {"tenants", "inspect"} => r.kind = "read" /\ r.flag = ""
    /\ r.call = "change" => r.flag = ""
    /\ r.call = "switch" => r.kind = "write" /\ r.flag = "" /\ r.arg \in Items
    /\ r.call \in RootForms => r.flag = r.call
RootRequests == {r \in Requests(RootSubjects, RootCalls, RootFlags) : RootCall(r)}

\* The administrator whose button is disabled is being switched.
RootHeld == view.row # None => \E r \in net : r.call = "switch" /\ r.arg = view.row

RootInv == view \in RootViews /\ Frame(RootRequests, RootForms) /\ Covered /\ RootHeld

LEMMA RootSubject ==
    /\ None \in RootSubjects /\ NoWord \in RootSubjects
    /\ {"attach", "on", "off"} \subseteq RootSubjects
    /\ None \in Targets /\ Items \subseteq Targets /\ Items \subseteq RootSubjects
    BY DEF RootSubjects, Targets

LEMMA RootStart ==
    ASSUME RootInit
    PROVE  RootInv
    <1> DEFINE p == Request("read", "rows", NoWord, "page", 1)
               q == Request("read", "tenants", NoWord, "", 1)
    <1>1. /\ p \in Requests(RootSubjects, RootCalls, RootFlags)
          /\ Asks(p, "read", "rows", NoWord, None, "page")
          /\ q \in Requests(RootSubjects, RootCalls, RootFlags)
          /\ Asks(q, "read", "tenants", NoWord, None, "")
      <2>1. {"rows", "tenants"} \subseteq RootCalls /\ {"", "page"} \subseteq RootFlags
        BY DEF RootCalls, RootFlags
      <2> QED BY <2>1, RootSubject, FirstAsked
    <1>2. p \in net /\ net \subseteq {p, q} /\ Start
      BY DEF RootInit, Mounted
    <1> HIDE DEF p, q
    <1>3. /\ p \in RootRequests /\ p.kind = "read" /\ p.flag = "page"
          /\ q \in RootRequests /\ q.kind = "read" /\ q.flag = ""
      BY <1>1 DEF RootRequests, RootCall, Asks, RootForms
    <1>4. Frame(RootRequests, RootForms)
      <2>1. net \subseteq RootRequests /\ \A r \in net : r.kind = "read" /\ r.flag \notin RootForms
        BY <1>2, <1>3 DEF RootForms
      <2> QED BY <1>2, <2>1, FrameStart
    <1>5. view \in RootViews /\ view.busy = {"page"} /\ view.row = None
      <2>1. 0 \in Versions
        BY MaxWritesNat DEF Versions
      <2>2. PICK page \in RootPageNames :
               view = [page |-> page, open |-> FALSE, form |-> "blank", wrong |-> FALSE,
                       attach |-> "blank", told |-> "none", active |-> {}, row |-> None,
                       acting |-> FALSE, busy |-> {"page"}, lists |-> 0, error |-> FALSE]
        BY DEF RootInit
      <2> QED BY <2>1, <2>2, RootSubject DEF RootViews, Drafts
    <1>6. Covered /\ RootHeld
      BY <1>2, <1>3, <1>5 DEF Covered, HasRequest, RootHeld
    <1> QED BY <1>4, <1>5, <1>6 DEF RootInv

LEMMA RootFacts ==
    ASSUME RootInv
    PROVE  /\ view \in RootViews /\ Frame(RootRequests, RootForms) /\ Covered /\ RootHeld
           /\ "" \notin view.busy
           /\ \A r \in net : /\ r \in Requests(RootSubjects, RootCalls, RootFlags)
                             /\ RootCall(r) /\ r.saw \in Versions
    <1>1. \A r \in net : r \in Requests(RootSubjects, RootCalls, RootFlags) /\ RootCall(r)
      BY DEF RootInv, Frame, RootRequests
    <1>2. view \in RootViews
      BY DEF RootInv
    <1> QED BY <1>1, <1>2 DEF RootInv, Requests, RootViews

-----------------------------------------------------------------------------
(* What the steps have in common *)

LEMMA RootQuiet ==
    ASSUME RootInv, UNCHANGED net, Input, view' \in RootViews, view'.busy = view.busy,
           view'.row = view.row
    PROVE  RootInv'
    <1>1. Frame(RootRequests, RootForms) /\ Covered /\ Moves
      BY RootFacts DEF Moves
    <1>2. Frame(RootRequests, RootForms)' /\ Covered'
      BY <1>1, FrameQuiet
    <1>3. RootHeld'
      BY RootFacts DEF RootHeld
    <1> QED BY <1>2, <1>3 DEF RootInv

\* A request is sent; what is switched takes the guard of the rows.
LEMMA RootSendKeeps ==
    ASSUME RootInv, NEW q \in RootRequests, Sends({}, {q}), Input,
           q.kind = "write" => MayWrite(q.call),
           q.flag \in RootForms => q.flag \notin view.busy,
           view' \in RootViews, view'.busy = view.busy \cup ({q.flag} \ {""}),
           view'.row = IF q.call = "switch" THEN q.arg ELSE view.row
    PROVE  RootInv'
    <1>1. Frame(RootRequests, RootForms) /\ Covered /\ Moves
      BY RootFacts DEF Moves
    <1>2. q.flag \in RootForms => q.flag \in view'.busy /\ q.flag \notin view.busy
      BY DEF RootForms
    <1>3. view'.busy \subseteq view.busy \cup {q.flag}
          /\ \A f \in RootForms : f \in view.busy => f \in view'.busy
      OBVIOUS
    <1>4. Frame(RootRequests, RootForms)' /\ Covered'
      BY <1>1, <1>2, <1>3, FrameSent
    <1>5. RootHeld'
      <2>1. net' = net \cup {q}
        BY DEF Sends
      <2> QED BY <2>1, RootFacts DEF RootHeld
    <1> QED BY <1>4, <1>5 DEF RootInv

LEMMA RootAnswerKeeps ==
    ASSUME RootInv, NEW r \in net, UNCHANGED server, Sends({r}, {}), view' \in RootViews,
           view'.busy = view.busy \ {r.flag},
           view'.row = None \/ (view'.row = view.row /\ r.call # "switch")
    PROVE  RootInv'
    <1>1. Frame(RootRequests, RootForms) /\ Covered /\ Moves
      BY RootFacts DEF Moves
    <1>2. \A f \in RootForms : f \in view.busy /\ f # r.flag => f \in view'.busy
      OBVIOUS
    <1>3. Frame(RootRequests, RootForms)' /\ Covered'
      BY <1>1, <1>2, FrameAnswered
    <1>4. RootHeld'
      BY RootFacts DEF RootHeld, Sends
    <1> QED BY <1>3, <1>4 DEF RootInv

LEMMA RootFollowKeeps ==
    ASSUME RootInv, NEW r \in net, UNCHANGED server, NEW q \in RootRequests, q.kind = "read",
           Sends({r}, {q}), view' \in RootViews, r.call # "switch", view'.row = view.row,
           \/ q.flag \notin RootForms /\ view'.busy = (view.busy \ {r.flag}) \cup ({q.flag} \ {""})
           \/ q.flag = r.flag /\ view'.busy = view.busy
    PROVE  RootInv'
    <1>1. Frame(RootRequests, RootForms) /\ Covered /\ Moves /\ "" \notin view.busy
      BY RootFacts DEF Moves
    <1>2. /\ view'.busy \subseteq view.busy \cup {q.flag}
          /\ r.flag \in view'.busy => r.flag = q.flag
          /\ q.flag \in RootForms
               => q.flag = r.flag /\ (q.flag \in view.busy => q.flag \in view'.busy)
      BY <1>1
    <1>3. \A f \in RootForms : f \in view.busy /\ f # r.flag => f \in view'.busy
      OBVIOUS
    <1>4. Frame(RootRequests, RootForms)' /\ Covered'
      BY <1>1, <1>2, <1>3, FrameReread
    <1>5. RootHeld'
      BY RootFacts DEF RootHeld, Sends
    <1> QED BY <1>4, <1>5 DEF RootInv

\* What the page asks the server for.
LEMMA RootAsks ==
    ASSUME NEW kind \in {"read", "write"}, NEW call \in RootCalls, NEW arg \in RootSubjects,
           NEW flag \in RootFlags, NEW at \in RootSubjects, Unsent(call), NEW q,
           q = Keeping(Request(kind, call, arg, flag, Slot(call)), at),
           RootCall([kind |-> kind, call |-> call, arg |-> arg, at |-> at, flag |-> flag])
    PROVE  q \in RootRequests /\ Asks(q, kind, call, arg, at, flag)
    <1>1. q \in Requests(RootSubjects, RootCalls, RootFlags) /\ Asks(q, kind, call, arg, at, flag)
      <2>1. \/ kind = "read" /\ q = Keeping(Read(call, arg, flag), at)
            \/ kind = "write" /\ q = Keeping(Write(call, arg, flag), at)
        BY DEF Read, Write
      <2> QED BY <2>1, RootSubject, NewAsked
    <1>2. RootCall(q)
      BY <1>1 DEF RootCall, Asks
    <1> QED BY <1>1, <1>2 DEF RootRequests

LEMMA RootReloads ==
    ASSUME Unsent("rows"), NEW at \in RootSubjects
    PROVE  /\ RootReload(at) \in RootRequests /\ RootReload(at).kind = "read"
           /\ RootReload(at).flag = "page"
    <1>1. "rows" \in RootCalls /\ "page" \in RootFlags /\ "rows" \notin RootForms
      BY DEF RootCalls, RootFlags, RootForms
    <1>2. RootReload(at) = Keeping(Request("read", "rows", NoWord, "page", Slot("rows")), at)
      BY DEF RootReload, Read
    <1>3. RootCall([kind |-> "read", call |-> "rows", arg |-> NoWord, at |-> at, flag |-> "page"])
      BY <1>1 DEF RootCall
    <1>4. RootReload(at) \in RootRequests /\ Asks(RootReload(at), "read", "rows", NoWord, at, "page")
      BY <1>1, <1>2, <1>3, RootSubject, RootAsks
    <1> QED BY <1>4 DEF Asks

-----------------------------------------------------------------------------
(* The steps of the page *)

LEMMA RootUserKeeps ==
    ASSUME RootInv,
           RootForm \/ RootFrame \/ RootAdmins \/ RootCommand \/ RootCentre \/ RootTenantForm
    PROVE  RootInv'
    <1>1. view \in RootViews /\ "" \notin view.busy
      BY RootFacts
    <1>2. CASE RootForm
      <2>1. ASSUME NEW d \in {"partial", "complete"}, RootFill(d)
            PROVE  RootInv'
        <3>1. PICK b : b = (view.wrong /\ RootPlatforms)
          OBVIOUS
        <3>2. view' = [view EXCEPT !.form = d, !.wrong = b] /\ b \in BOOLEAN
              /\ UNCHANGED net /\ Input
          BY <2>1, <3>1 DEF RootFill
        <3>3. view' \in RootViews /\ view'.busy = view.busy /\ view'.row = view.row
          BY <1>1, <3>2 DEF RootViews, Drafts
        <3> QED BY <3>2, <3>3, RootQuiet
      <2>2. CASE view' = [view EXCEPT !.wrong = TRUE] /\ UNCHANGED net /\ Input
        <3>1. view' \in RootViews /\ view'.busy = view.busy /\ view'.row = view.row
          BY <1>1, <2>2 DEF RootViews
        <3> QED BY <2>2, <3>1, RootQuiet
      <2>3. CASE RootSend /\ "create" \notin view.busy
        <3> DEFINE q == Write("create", None, "create")
        <3>1. /\ Sends({}, {q}) /\ MayWrite("create") /\ Input
              /\ view' = [view EXCEPT !.busy = @ \cup {"create"}, !.wrong = FALSE]
          BY <2>3 DEF RootSend
        <3>2. /\ "create" \in RootCalls /\ "create" \in RootFlags /\ Unsent("create")
              /\ "create" \in RootForms
          BY <3>1 DEF RootCalls, RootFlags, RootForms, MayWrite
        <3>3. q \in Requests(RootSubjects, RootCalls, RootFlags)
              /\ Asks(q, "write", "create", None, None, "create")
          BY <3>2, RootSubject, NewAsked
        <3> HIDE DEF q
        <3>4. q \in RootRequests /\ q.call = "create" /\ q.flag = "create"
          BY <3>3 DEF RootRequests, RootCall, Asks, RootForms
        <3>5. /\ view' \in RootViews /\ view'.busy = view.busy \cup {"create"}
              /\ view'.row = view.row
          BY <1>1, <3>1 DEF RootViews
        <3>6. view'.busy = view.busy \cup ({q.flag} \ {""})
          BY <3>4, <3>5
        <3> QED BY <2>3, <3>1, <3>4, <3>5, <3>6, RootSendKeeps
      <2> QED BY <1>2, <2>1, <2>2, <2>3 DEF RootForm, RootCreate
    <1>3. CASE RootFrame
      <2>1. CASE RootOpen
        <3>1. view' = [view EXCEPT !.open = ~@] /\ UNCHANGED net /\ Input
          BY <2>1 DEF RootOpen
        <3>2. view' \in RootViews /\ view'.busy = view.busy /\ view'.row = view.row
          BY <1>1, <3>1 DEF RootViews
        <3> QED BY <3>1, <3>2, RootQuiet
      <2>2. CASE RootRefresh
        <3>1. PICK flag \in {"", "page"} : flag = IF RootPlatforms THEN "page" ELSE ""
          OBVIOUS
        <3> DEFINE q == Read("rows", NoWord, flag)
        <3>2. Sends({}, {q}) /\ Input /\ Unsent("rows")
          BY <2>2, <3>1 DEF RootRefresh
        <3>3. "rows" \in RootCalls /\ flag \in RootFlags
          BY DEF RootCalls, RootFlags
        <3>4. q \in Requests(RootSubjects, RootCalls, RootFlags)
              /\ Asks(q, "read", "rows", NoWord, None, flag)
          BY <3>2, <3>3, RootSubject, NewAsked
        <3> HIDE DEF q
        <3>5. q \in RootRequests /\ q.kind = "read" /\ q.call = "rows" /\ q.flag = flag
          BY <3>4 DEF RootRequests, RootCall, Asks, RootForms
        <3>6. view' = [view EXCEPT !.error = FALSE, !.busy = view.busy \cup ({flag} \ {""})]
          <4>1. CASE RootPlatforms
            <5>1. ({flag} \ {""}) = {"page"}
              BY <3>1, <4>1
            <5>2. view' = [view EXCEPT !.error = FALSE, !.busy = view.busy \cup {"page"}]
              BY <2>2, <4>1 DEF RootRefresh
            <5> QED BY <5>1, <5>2
          <4>2. CASE ~RootPlatforms
            <5>1. view.busy \cup ({flag} \ {""}) = view.busy
              BY <3>1, <4>2
            <5>2. view' = [view EXCEPT !.error = FALSE, !.busy = view.busy]
              BY <2>2, <4>2 DEF RootRefresh
            <5> QED BY <5>1, <5>2
          <4> QED BY <4>1, <4>2
        <3>7. /\ view' \in RootViews /\ view'.busy = view.busy \cup ({flag} \ {""})
              /\ view'.row = view.row
          BY <1>1, <3>6 DEF RootViews
        <3>8. q.flag \notin RootForms /\ q.kind # "write" /\ q.call # "switch"
          BY <3>5 DEF RootForms
        <3> QED BY <3>2, <3>5, <3>7, <3>8, RootSendKeeps
      <2> QED BY <1>3, <2>1, <2>2 DEF RootFrame
    <1>4. CASE RootAdmins
      <2>1. PICK i \in Items : RootSwitch(i)
        BY <1>4 DEF RootAdmins
      <2>2. PICK at \in {"on", "off"} : at = IF i \in view.active THEN "off" ELSE "on"
        OBVIOUS
      <2> DEFINE q == Keeping(Write("switch", i, ""), at)
      <2>3. /\ Sends({}, {q}) /\ MayWrite("switch") /\ Input
            /\ view' = [view EXCEPT !.row = i]
        BY <2>1, <2>2 DEF RootSwitch
      <2>4. q \in Requests(RootSubjects, RootCalls, RootFlags)
            /\ Asks(q, "write", "switch", i, at, "")
        <3>1. /\ "switch" \in RootCalls /\ "" \in RootFlags /\ Unsent("switch")
              /\ i \in RootSubjects /\ at \in RootSubjects
          BY <2>3, RootSubject DEF RootCalls, RootFlags, MayWrite
        <3> QED BY <3>1, RootSubject, NewAsked
      <2> HIDE DEF q
      <2>5. /\ q \in RootRequests /\ q.call = "switch" /\ q.flag = "" /\ q.arg = i
            /\ q.flag \notin RootForms
        BY <2>4 DEF RootRequests, RootCall, Asks, RootForms
      <2>6. view' \in RootViews /\ view'.busy = view.busy /\ view'.row = i
        BY <1>1, <2>3, RootSubject DEF RootViews
      <2>7. view'.busy = view.busy \cup ({q.flag} \ {""})
        BY <2>5, <2>6
      <2> QED BY <2>3, <2>5, <2>6, <2>7, RootSendKeeps
    <1>5. ASSUME NEW call \in {"change", "inspect"}, NEW waits, RootAct(call, waits)
          PROVE  RootInv'
      <2>1. PICK q \in RootRequests : /\ Sends({}, {q}) /\ q.flag = "" /\ q.call = call
                                      /\ q.kind = "write" => MayWrite(q.call)
        <3>1. CASE call = "change"
          <4> DEFINE q == Write("change", None, "")
          <4>1. Sends({}, {q}) /\ MayWrite("change")
            BY <1>5, <3>1 DEF RootAct
          <4>2. q \in Requests(RootSubjects, RootCalls, RootFlags)
                /\ Asks(q, "write", "change", None, None, "")
            <5>1. "change" \in RootCalls /\ "" \in RootFlags /\ Unsent("change")
              BY <4>1 DEF RootCalls, RootFlags, MayWrite
            <5> QED BY <5>1, RootSubject, NewAsked
          <4> HIDE DEF q
          <4>3. q \in RootRequests /\ q.call = "change" /\ q.flag = ""
            BY <4>2 DEF RootRequests, RootCall, Asks, RootForms
          <4> QED BY <3>1, <4>1, <4>3
        <3>2. CASE call = "inspect"
          <4> DEFINE q == Read("inspect", None, "")
          <4>1. Sends({}, {q}) /\ Unsent("inspect")
            BY <1>5, <3>2 DEF RootAct
          <4>2. q \in Requests(RootSubjects, RootCalls, RootFlags)
                /\ Asks(q, "read", "inspect", None, None, "")
            <5>1. "inspect" \in RootCalls /\ "" \in RootFlags
              BY DEF RootCalls, RootFlags
            <5> QED BY <4>1, <5>1, RootSubject, NewAsked
          <4> HIDE DEF q
          <4>3. q \in RootRequests /\ q.kind = "read" /\ q.call = "inspect" /\ q.flag = ""
            BY <4>2 DEF RootRequests, RootCall, Asks, RootForms
          <4> QED BY <3>2, <4>1, <4>3
        <3> QED BY <3>1, <3>2
      <2>2. view' = [view EXCEPT !.acting = TRUE] /\ Input
        BY <1>5 DEF RootAct
      <2>3. view' \in RootViews /\ view'.busy = view.busy /\ view'.row = view.row
        BY <1>1, <2>2 DEF RootViews
      <2>4. /\ view'.busy = view.busy \cup ({q.flag} \ {""}) /\ q.flag \notin RootForms
            /\ q.call # "switch"
        BY <2>1, <2>3 DEF RootForms
      <2> QED BY <2>1, <2>2, <2>3, <2>4, RootSendKeeps
    <1>6. CASE RootTenantForm
      <2>1. CASE RootChoose
        <3>1. view' = [view EXCEPT !.attach = "complete"] /\ UNCHANGED net /\ Input
          BY <2>1 DEF RootChoose
        <3>2. view' \in RootViews /\ view'.busy = view.busy /\ view'.row = view.row
          BY <1>1, <3>1 DEF RootViews
        <3> QED BY <3>1, <3>2, RootQuiet
      <2>2. CASE RootAttach
        <3> DEFINE q == Write("attach", None, "attach")
        <3>1. /\ Sends({}, {q}) /\ MayWrite("attach") /\ Input /\ "attach" \notin view.busy
              /\ view' = [view EXCEPT !.busy = @ \cup {"attach"}, !.told = "none"]
          BY <2>2 DEF RootAttach
        <3>2. "attach" \in RootCalls /\ "attach" \in RootFlags /\ Unsent("attach")
          BY <3>1 DEF RootCalls, RootFlags, RootForms, MayWrite
        <3>3. q \in Requests(RootSubjects, RootCalls, RootFlags)
              /\ Asks(q, "write", "attach", None, None, "attach")
          BY <3>2, RootSubject, NewAsked
        <3> HIDE DEF q
        <3>4. q \in RootRequests /\ q.call = "attach" /\ q.flag = "attach"
          BY <3>3 DEF RootRequests, RootCall, Asks, RootForms
        <3>5. /\ view' \in RootViews /\ view'.busy = view.busy \cup {"attach"}
              /\ view'.row = view.row
          BY <1>1, <3>1 DEF RootViews
        <3>6. view'.busy = view.busy \cup ({q.flag} \ {""})
          BY <3>4, <3>5
        <3> QED BY <3>1, <3>4, <3>5, <3>6, RootSendKeeps
      <2> QED BY <1>6, <2>1, <2>2 DEF RootTenantForm
    <1> QED BY <1>2, <1>3, <1>4, <1>5, <1>6 DEF RootCommand, RootCentre

RootAnswered(r) ==
    \/ RootLoaded(r) \/ RootTenants(r) \/ RootCreated(r) \/ RootRelisted(r)
    \/ RootSwitched(r) \/ RootActed(r) \/ RootAttached(r)

LEMMA RootCreatedKeeps ==
    ASSUME RootInv, NEW r \in net, RootCreated(r) \/ RootRelisted(r)
    PROVE  RootInv'
    <1>1. /\ view \in RootViews /\ "" \notin view.busy
          /\ r \in Requests(RootSubjects, RootCalls, RootFlags)
          /\ RootCall(r) /\ r.saw \in Versions
      BY RootFacts
    <1>2. UNCHANGED server /\ r.flag = "create" /\ r.call = "create"
      BY <1>1 DEF RootCreated, RootRelisted, RootCall, Wrote, Reads, Answered, RootForms
    <1> DEFINE low == RootLower(view)
               empty == RootLower(RootEmptied(view))
    <1>3. low \in RootViews /\ low.busy = view.busy \ {"create"} /\ low.row = view.row
      BY <1>1 DEF RootLower, RootViews
    <1>4. empty \in RootViews /\ empty.busy = view.busy \ {"create"} /\ empty.row = view.row
      BY <1>1 DEF RootLower, RootEmptied, RootViews, Drafts
    <1>5. ASSUME Sends({r}, {}), view' \in RootViews, view'.busy = view.busy \ {"create"},
                 view'.row = view.row
          PROVE  RootInv'
      BY <1>2, <1>5, RootAnswerKeeps
    <1>6. ASSUME view' = [low EXCEPT !.wrong = TRUE], Sends({r}, {})
          PROVE  RootInv'
      <2> HIDE DEF low
      <2>1. /\ view' \in RootViews /\ view'.busy = view.busy \ {"create"}
            /\ view'.row = view.row
        BY <1>3, <1>6 DEF RootViews
      <2> QED BY <1>5, <1>6, <2>1
    <1>7. CASE RootRelisted(r)
      <2>1. Sends({r}, {})
        BY <1>7 DEF RootRelisted
      <2>2. CASE r.step = "served"
        <3>1. PICK S \in SUBSET Items : view' = [empty EXCEPT !.lists = r.saw, !.active = S]
          BY <1>7, <2>2 DEF RootRelisted, RootRows
        <3> HIDE DEF empty
        <3>2. /\ view' \in RootViews /\ view'.busy = view.busy \ {"create"}
              /\ view'.row = view.row
          BY <1>1, <1>4, <3>1 DEF RootViews
        <3> QED BY <1>5, <2>1, <3>2
      <2>3. CASE r.step # "served"
        BY <1>6, <1>7, <2>1, <2>3 DEF RootRelisted
      <2> QED BY <2>2, <2>3
    <1>8. ASSUME NEW i \in Items, view' = [empty EXCEPT !.active = @ \cup {i}], Sends({r}, {})
          PROVE  RootInv'
      <2> HIDE DEF empty
      <2>1. /\ view' \in RootViews /\ view'.busy = view.busy \ {"create"}
            /\ view'.row = view.row
        BY <1>4, <1>8 DEF RootViews
      <2> QED BY <1>5, <1>8, <2>1
    <1>9. ASSUME view' = [view EXCEPT !.error = FALSE], Sends({r}, {Reread(r)})
          PROVE  RootInv'
      <2> DEFINE q == Reread(r)
      <2>1. /\ q \in Requests(RootSubjects, RootCalls, RootFlags)
            /\ Asks(q, "read", r.call, r.arg, r.at, r.flag) /\ Sends({r}, {q})
        BY <1>1, <1>9, AskedAgain
      <2> HIDE DEF q
      <2>2. q \in RootRequests /\ q.kind = "read" /\ q.flag = r.flag
        BY <1>2, <2>1 DEF RootRequests, RootCall, Asks, RootForms
      <2>3. view' \in RootViews /\ view'.busy = view.busy /\ view'.row = view.row
        BY <1>1, <1>9 DEF RootViews
      <2> QED BY <1>2, <2>1, <2>2, <2>3, RootFollowKeeps
    <1>10. ASSUME view' = [empty EXCEPT !.busy = @ \cup {"page"}, !.error = FALSE],
                  Sends({r}, {RootReload(None)}), Unsent("rows")
           PROVE  RootInv'
      <2> DEFINE q == RootReload(None)
      <2>1. q \in RootRequests /\ q.kind = "read" /\ q.flag = "page" /\ Sends({r}, {q})
        BY <1>10, RootSubject, RootReloads
      <2> HIDE DEF q, empty
      <2>2. /\ view' \in RootViews /\ view'.busy = (view.busy \ {"create"}) \cup {"page"}
            /\ view'.row = view.row
        BY <1>4, <1>10 DEF RootViews
      <2>3. q.flag \notin RootForms /\ view'.busy = (view.busy \ {r.flag}) \cup ({q.flag} \ {""})
        BY <1>2, <2>1, <2>2 DEF RootForms
      <2> QED BY <1>2, <2>1, <2>2, <2>3, RootFollowKeeps
    <1>11. CASE RootCreated(r)
      <2> HIDE DEF low, empty
      <2>1. \/ view' = [low EXCEPT !.wrong = TRUE] /\ Sends({r}, {})
            \/ /\ \E i \in Items : view' = [empty EXCEPT !.active = @ \cup {i}]
               /\ Sends({r}, {})
            \/ view' = [view EXCEPT !.error = FALSE] /\ Sends({r}, {Reread(r)})
            \/ /\ view' = [empty EXCEPT !.busy = @ \cup {"page"}, !.error = FALSE]
               /\ Sends({r}, {RootReload(None)}) /\ Unsent("rows")
        BY <1>11 DEF RootCreated, low, empty
      <2> QED BY <1>6, <1>8, <1>9, <1>10, <2>1
    <1> QED BY <1>7, <1>11

LEMMA RootAnswersKeep ==
    ASSUME RootInv, NEW r \in net, RootAnswered(r)
    PROVE  RootInv'
    <1>1. /\ view \in RootViews /\ "" \notin view.busy
          /\ r \in Requests(RootSubjects, RootCalls, RootFlags)
          /\ RootCall(r) /\ r.saw \in Versions
      BY RootFacts
    <1>2. UNCHANGED server
      BY DEF RootAnswered, RootLoaded, RootTenants, RootCreated, RootRelisted, RootSwitched,
             RootActed, RootAttached
    <1>3. CASE RootLoaded(r)
      <2>1. r.call = "rows" /\ r.flag \notin RootForms
        BY <1>1, <1>3 DEF RootLoaded, Reads, Answered, RootCall, RootForms
      <2> DEFINE v == [view EXCEPT !.busy = @ \ {r.flag}]
      <2>2. v \in RootViews /\ v.busy = view.busy \ {r.flag} /\ v.row = view.row
        BY <1>1 DEF RootViews
      <2>3. /\ view' \in RootViews /\ view'.busy = view.busy \ {r.flag}
            /\ view'.row = view.row
        <3>1. CASE r.step = "served"
          <4>1. PICK S \in SUBSET Items : view' = [v EXCEPT !.lists = r.saw, !.active = S]
            BY <1>3, <3>1 DEF RootLoaded, RootRows
          <4> HIDE DEF v
          <4> QED BY <1>1, <2>2, <4>1 DEF RootViews
        <3>2. CASE r.step # "served"
          <4>1. PICK b : b = (v.error \/ r.flag = "page")
            OBVIOUS
          <4>2. view' = [v EXCEPT !.error = b] /\ b \in BOOLEAN
            BY <1>3, <3>2, <4>1 DEF RootLoaded
          <4> HIDE DEF v
          <4> QED BY <2>2, <4>2 DEF RootViews
        <3> QED BY <3>1, <3>2
      <2>4. CASE r.at # "attach"
        <3>1. Sends({r}, {})
          <4>1. {r.at} \cap {"attach"} = {}
            BY <2>4
          <4> QED BY <1>3, <4>1 DEF RootLoaded
        <3> QED BY <1>2, <2>1, <2>3, <3>1, RootAnswerKeeps
      <2>5. CASE r.at = "attach"
        <3> DEFINE q == Keeping(Read("tenants", NoWord, ""), "attach")
        <3>1. Sends({r}, {q}) /\ Unsent("tenants")
          <4>1. {Keeping(Read("tenants", NoWord, ""), r.at) : a \in {r.at} \cap {"attach"}} = {q}
            BY <2>5
          <4> QED BY <1>3, <2>5, <4>1 DEF RootLoaded
        <3>2. q \in Requests(RootSubjects, RootCalls, RootFlags)
              /\ Asks(q, "read", "tenants", NoWord, "attach", "")
          <4>1. "tenants" \in RootCalls /\ "" \in RootFlags /\ "attach" \in RootSubjects
            BY RootSubject DEF RootCalls, RootFlags
          <4> QED BY <3>1, <4>1, RootSubject, NewAsked
        <3> HIDE DEF q
        <3>3. q \in RootRequests /\ q.kind = "read" /\ q.flag = "" /\ q.flag \notin RootForms
          BY <3>2 DEF RootRequests, RootCall, Asks, RootForms
        <3>4. view'.busy = (view.busy \ {r.flag}) \cup ({q.flag} \ {""})
          BY <2>3, <3>3
        <3> QED BY <1>2, <2>1, <2>3, <3>1, <3>3, <3>4, RootFollowKeeps
      <2> QED BY <2>4, <2>5
    <1>4. CASE RootTenants(r)
      <2>1. r.call = "tenants" /\ r.flag = "" /\ Sends({r}, {})
        BY <1>1, <1>4 DEF RootTenants, Reads, Answered, RootCall
      <2>2. view' = view \/ view' = [view EXCEPT !.told = "refused"]
        BY <1>4 DEF RootTenants
      <2>3. view' \in RootViews /\ view'.busy = view.busy /\ view'.row = view.row
        BY <1>1, <2>2 DEF RootViews
      <2>4. view'.busy = view.busy \ {r.flag}
        BY <1>1, <2>1, <2>3
      <2> QED BY <1>2, <2>1, <2>3, <2>4, RootAnswerKeeps
    <1>5. CASE RootSwitched(r)
      <2>1. r.flag = "" /\ r.arg \in Items /\ Sends({r}, {})
        BY <1>1, <1>5 DEF RootSwitched, Wrote, Answered, RootCall
      <2>2. view' \in RootViews /\ view'.busy = view.busy /\ view'.row = None
        <3>1. CASE r.step = "failed"
          <4>1. view' = [view EXCEPT !.row = None, !.error = TRUE]
            BY <1>5, <3>1 DEF RootSwitched
          <4> QED BY <1>1, <4>1, RootSubject DEF RootViews
        <3>2. CASE r.step # "failed"
          <4>1. \/ view' = [view EXCEPT !.row = None, !.active = view.active \cup {r.arg}]
                \/ view' = [view EXCEPT !.row = None, !.active = view.active \ {r.arg}]
            BY <1>5, <3>2 DEF RootSwitched
          <4>2. view.active \in SUBSET Items
            BY <1>1 DEF RootViews
          <4>3. PICK S \in SUBSET Items : view' = [view EXCEPT !.row = None, !.active = S]
            BY <2>1, <4>1, <4>2
          <4> QED BY <1>1, <4>3, RootSubject DEF RootViews
        <3> QED BY <3>1, <3>2
      <2>3. view'.busy = view.busy \ {r.flag}
        BY <1>1, <2>1, <2>2
      <2> QED BY <1>2, <2>1, <2>2, <2>3, RootAnswerKeeps
    <1>6. CASE RootActed(r)
      <2>1. r.flag = "" /\ r.call # "switch"
        BY <1>1, <1>6 DEF RootActed, Answered, RootCall
      <2>2. CASE r.call = "change" /\ r.step = "served"
        <3> DEFINE q == RootReload(None)
        <3>1. /\ Sends({r}, {q}) /\ Unsent("rows")
              /\ view' = [view EXCEPT !.acting = FALSE, !.busy = @ \cup {"page"}, !.error = FALSE]
          BY <1>6, <2>2 DEF RootActed
        <3>2. q \in RootRequests /\ q.kind = "read" /\ q.flag = "page"
          BY <3>1, RootSubject, RootReloads
        <3> HIDE DEF q
        <3>3. /\ view' \in RootViews /\ view'.busy = view.busy \cup {"page"}
              /\ view'.row = view.row
          BY <1>1, <3>1 DEF RootViews
        <3>4. q.flag \notin RootForms /\ view'.busy = (view.busy \ {r.flag}) \cup ({q.flag} \ {""})
          BY <1>1, <2>1, <3>2, <3>3 DEF RootForms
        <3> QED BY <1>2, <2>1, <3>1, <3>2, <3>3, <3>4, RootFollowKeeps
      <2>3. CASE ~(r.call = "change" /\ r.step = "served")
        <3>1. view' = [view EXCEPT !.acting = FALSE] /\ Sends({r}, {})
          BY <1>6, <2>3 DEF RootActed
        <3>2. view' \in RootViews /\ view'.busy = view.busy /\ view'.row = view.row
          BY <1>1, <3>1 DEF RootViews
        <3>3. view'.busy = view.busy \ {r.flag}
          BY <1>1, <2>1, <3>2
        <3> QED BY <1>2, <2>1, <3>1, <3>2, <3>3, RootAnswerKeeps
      <2> QED BY <2>2, <2>3
    <1>7. CASE RootAttached(r)
      <2>1. r.flag = "attach" /\ r.call = "attach"
        BY <1>1, <1>7 DEF RootAttached, Wrote, Answered, RootCall, RootForms
      <2> DEFINE v == [view EXCEPT !.busy = @ \ {"attach"}]
      <2>2. v \in RootViews /\ v.busy = view.busy \ {"attach"} /\ v.row = view.row
        BY <1>1 DEF RootViews
      <2>3. CASE r.step = "served"
        <3> DEFINE q == RootReload("attach")
        <3>1. /\ Sends({r}, {q}) /\ Unsent("rows")
              /\ view' = [v EXCEPT !.busy = @ \cup {"page"}, !.error = FALSE, !.told = "attached"]
          BY <1>7, <2>3 DEF RootAttached
        <3>2. q \in RootRequests /\ q.kind = "read" /\ q.flag = "page"
          BY <3>1, RootSubject, RootReloads
        <3> HIDE DEF q, v
        <3>3. /\ view' \in RootViews /\ view'.busy = (view.busy \ {"attach"}) \cup {"page"}
              /\ view'.row = view.row
          BY <2>2, <3>1 DEF RootViews
        <3>4. q.flag \notin RootForms /\ view'.busy = (view.busy \ {r.flag}) \cup ({q.flag} \ {""})
          BY <2>1, <3>2, <3>3 DEF RootForms
        <3> QED BY <1>2, <2>1, <3>1, <3>2, <3>3, <3>4, RootFollowKeeps
      <2>4. CASE r.step # "served"
        <3>1. view' = [v EXCEPT !.told = "refused"] /\ Sends({r}, {})
          BY <1>7, <2>4 DEF RootAttached
        <3> HIDE DEF v
        <3>2. /\ view' \in RootViews /\ view'.busy = view.busy \ {"attach"}
              /\ view'.row = view.row
          BY <2>2, <3>1 DEF RootViews
        <3> QED BY <1>2, <2>1, <3>1, <3>2, RootAnswerKeeps
      <2> QED BY <2>3, <2>4
    <1> QED BY <1>3, <1>4, <1>5, <1>6, <1>7, RootCreatedKeeps DEF RootAnswered

LEMMA RootStep ==
    ASSUME RootInv, RootNext
    PROVE  RootInv'
    BY RootUserKeeps, RootAnswersKeep DEF RootNext, RootAnswered

LEMMA RootServed ==
    ASSUME RootInv, NEW groups, Network(groups)
    PROVE  RootInv' /\ UNCHANGED <<view, inputs>>
    <1>1. /\ RootRequests \in SUBSET Requests(RootSubjects, RootCalls, RootFlags)
          /\ Unanswered(RootRequests)
      BY DEF RootRequests, Unanswered, RootCall, Requests
    <1>2. /\ Frame(RootRequests, RootForms)' /\ Covered' /\ UNCHANGED <<view, inputs>>
          /\ \E r \in net : \E step, saw : Served(r, step, saw)
      BY <1>1, FrameServed DEF RootInv
    <1>3. RootHeld'
      <2>0. PICK r \in net : \E step, saw : Served(r, step, saw)
        BY <1>2
      <2>1. PICK step, saw : Served(r, step, saw)
        BY <2>0
      <2> DEFINE s == [r EXCEPT !.step = step, !.saw = saw]
      <2>2. s.call = r.call /\ s.arg = r.arg
        BY RootFacts DEF Requests
      <2>3. net' = (net \ {r}) \cup {s}
        BY <2>1 DEF Served
      <2> HIDE DEF s
      <2> QED BY <1>2, <2>2, <2>3, RootFacts DEF RootHeld
    <1> QED BY <1>2, <1>3 DEF RootInv

LEMMA RootStutters ==
    ASSUME RootInv, UNCHANGED screen
    PROVE  RootInv'
    <1>1. Frame(RootRequests, RootForms)' /\ Covered' /\ UNCHANGED <<view, net>>
      BY FrameStutters DEF RootInv, screen
    <1> QED BY <1>1 DEF RootInv, RootHeld

-----------------------------------------------------------------------------
(* The security of one's account *)

AccountSubjects == Targets \cup {All, NoWord}
AccountFactors == {"prepare", "verify", "disable"}
AccountRevokes == {"revoke", "revoke_all"}
AccountCalls == {"sessions", "password"} \cup AccountRevokes \cup AccountFactors
AccountForms == {"factor", "password"}
AccountFlags == {"", "sessions"} \cup AccountForms
AccountCall(r) ==
    /\ r.call = "sessions" => r.kind = "read" /\ r.flag = "sessions"
    /\ r.call = "revoke" => r.flag = IF r.kind = "read" THEN "sessions" ELSE ""
    /\ r.call = "revoke_all" => r.kind = "write" /\ r.flag = ""
    /\ r.call \in AccountFactors => r.flag = "factor"
    /\ r.call = "password" => r.kind = "write" /\ r.flag = "password"
AccountRequests == {r \in Requests(AccountSubjects, AccountCalls, AccountFlags) : AccountCall(r)}

\* The session whose button is disabled is being revoked.
AccountHeld == view.row # None => \E r \in net : r.call \in AccountRevokes /\ r.arg = view.row

AccountInv ==
    view \in AccountViews /\ Frame(AccountRequests, AccountForms) /\ Covered /\ AccountHeld

LEMMA AccountSubject ==
    /\ None \in AccountSubjects /\ NoWord \in AccountSubjects /\ All \in AccountSubjects
    /\ None \in Targets /\ Items \subseteq Targets /\ Items \subseteq AccountSubjects
    BY DEF AccountSubjects, Targets

LEMMA AccountStart ==
    ASSUME AccountInit
    PROVE  AccountInv
    <1> DEFINE q == Request("read", "sessions", NoWord, "sessions", 1)
    <1>1. /\ q \in Requests(AccountSubjects, AccountCalls, AccountFlags)
          /\ Asks(q, "read", "sessions", NoWord, None, "sessions")
      <2>1. "sessions" \in AccountCalls /\ "sessions" \in AccountFlags
        BY DEF AccountCalls, AccountFlags
      <2> QED BY <2>1, AccountSubject, FirstAsked
    <1>2. net = {q} /\ Start
      BY DEF AccountInit, Mounted
    <1> HIDE DEF q
    <1>3. q \in AccountRequests /\ q.kind = "read" /\ q.flag = "sessions"
      BY <1>1 DEF AccountRequests, AccountCall, Asks, AccountFactors
    <1>4. Frame(AccountRequests, AccountForms)
      <2>1. net \subseteq AccountRequests /\ \A r \in net : r.kind = "read" /\ r.flag \notin AccountForms
        BY <1>2, <1>3 DEF AccountForms
      <2> QED BY <1>2, <2>1, FrameStart
    <1>5. view \in AccountViews /\ view.busy = {"sessions"} /\ view.row = None
      <2>1. 0 \in Versions
        BY MaxWritesNat DEF Versions
      <2>2. PICK e \in BOOLEAN :
               view = [page |-> "account", active |-> {}, row |-> None, code |-> "none",
                       enabled |-> e, password |-> "blank", busy |-> {"sessions"},
                       leaving |-> FALSE, out |-> FALSE, lists |-> 0, status |-> "none"]
        BY DEF AccountInit
      <2> QED BY <2>1, <2>2, AccountSubject DEF AccountViews, Drafts
    <1>6. Covered /\ AccountHeld
      BY <1>2, <1>3, <1>5 DEF Covered, HasRequest, AccountHeld
    <1> QED BY <1>4, <1>5, <1>6 DEF AccountInv

LEMMA AccountFacts ==
    ASSUME AccountInv
    PROVE  /\ view \in AccountViews /\ Frame(AccountRequests, AccountForms) /\ Covered
           /\ AccountHeld
           /\ \A r \in net : /\ r \in Requests(AccountSubjects, AccountCalls, AccountFlags)
                             /\ AccountCall(r) /\ r.saw \in Versions
    <1>1. \A r \in net : r \in Requests(AccountSubjects, AccountCalls, AccountFlags) /\ AccountCall(r)
      BY DEF AccountInv, Frame, AccountRequests
    <1> QED BY <1>1 DEF AccountInv, Requests

LEMMA AccountQuiet ==
    ASSUME AccountInv, UNCHANGED net, Moves, view' \in AccountViews, view'.busy = view.busy,
           view'.row = view.row
    PROVE  AccountInv'
    <1>1. Frame(AccountRequests, AccountForms) /\ Covered
      BY AccountFacts
    <1>2. Frame(AccountRequests, AccountForms)' /\ Covered'
      BY <1>1, FrameQuiet
    <1>3. AccountHeld'
      BY AccountFacts DEF AccountHeld
    <1> QED BY <1>2, <1>3 DEF AccountInv

\* A request is sent, and the row clicked is its subject.
LEMMA AccountSendKeeps ==
    ASSUME AccountInv, NEW q \in AccountRequests, Sends({}, {q}), Moves,
           q.kind = "write" => MayWrite(q.call),
           q.flag \in AccountForms => q.flag \notin view.busy,
           view' \in AccountViews, view'.busy = view.busy \cup ({q.flag} \ {""}),
           view'.row = IF q.call \in AccountRevokes THEN q.arg ELSE view.row
    PROVE  AccountInv'
    <1>1. Frame(AccountRequests, AccountForms) /\ Covered
      BY AccountFacts
    <1>2. q.flag \in AccountForms => q.flag \in view'.busy /\ q.flag \notin view.busy
      BY DEF AccountForms
    <1>3. view'.busy \subseteq view.busy \cup {q.flag}
          /\ \A f \in AccountForms : f \in view.busy => f \in view'.busy
      OBVIOUS
    <1>4. Frame(AccountRequests, AccountForms)' /\ Covered'
      BY <1>1, <1>2, <1>3, FrameSent
    <1>5. AccountHeld'
      <2>1. net' = net \cup {q}
        BY DEF Sends
      <2> QED BY <2>1, AccountFacts DEF AccountHeld
    <1> QED BY <1>4, <1>5 DEF AccountInv

LEMMA AccountUserKeeps ==
    ASSUME AccountInv, AccountSessions \/ AccountTwoFactor \/ AccountPassword \/ AccountLeave
    PROVE  AccountInv'
    <1>1. view \in AccountViews
      BY AccountFacts
    <1>2. ASSUME NEW call, NEW f, NEW i \in AccountSubjects, MayWrite(call), Input,
                 Sends({}, {Write(call, i, f)}), view' \in AccountViews,
                 \/ call \in AccountRevokes /\ f = "" /\ view'.busy = view.busy /\ view'.row = i
                 \/ /\ \/ call \in AccountFactors /\ f = "factor"
                       \/ call = "password" /\ f = "password"
                    /\ f \notin view.busy /\ view'.busy = view.busy \cup {f}
                    /\ view'.row = view.row
          PROVE  AccountInv'
      <2> DEFINE q == Write(call, i, f)
      <2>1. /\ q \in Requests(AccountSubjects, AccountCalls, AccountFlags)
            /\ Asks(q, "write", call, i, None, f)
        <3>1. call \in AccountCalls /\ f \in AccountFlags /\ Unsent(call)
          BY <1>2 DEF AccountCalls, AccountFlags, AccountForms, MayWrite
        <3> QED BY <1>2, <3>1, AccountSubject, NewAsked
      <2>2. Sends({}, {q}) /\ Moves
        BY <1>2 DEF Moves
      <2> HIDE DEF q
      <2>3. /\ q \in AccountRequests /\ MayWrite(q.call)
            /\ q.flag = f /\ q.call = call /\ q.arg = i
        BY <1>2, <2>1
           DEF AccountRequests, AccountCall, Asks, AccountFactors, AccountRevokes
      <2>4. q.flag \in AccountForms => q.flag \notin view.busy
        BY <1>2, <2>3 DEF AccountForms
      <2>5. view'.busy = view.busy \cup ({q.flag} \ {""})
        BY <1>2, <2>3
      <2>6. view'.row = IF q.call \in AccountRevokes THEN q.arg ELSE view.row
        BY <1>2, <2>3 DEF AccountRevokes, AccountFactors
      <2> QED BY <1>2, <2>2, <2>3, <2>4, <2>5, <2>6, AccountSendKeeps
    <1>3. CASE AccountSessions
      <2>1. CASE AccountRefresh
        <3> DEFINE q == Read("sessions", NoWord, "sessions")
        <3>1. /\ q \in Requests(AccountSubjects, AccountCalls, AccountFlags)
              /\ Asks(q, "read", "sessions", NoWord, None, "sessions")
          <4>1. "sessions" \in AccountCalls /\ "sessions" \in AccountFlags /\ Unsent("sessions")
            BY <2>1 DEF AccountCalls, AccountFlags, AccountRefresh
          <4> QED BY <4>1, AccountSubject, NewAsked
        <3>2. Sends({}, {q}) /\ Moves
          BY <2>1 DEF AccountRefresh, Moves
        <3> HIDE DEF q
        <3>3. /\ q \in AccountRequests /\ q.kind # "write" /\ q.flag = "sessions"
              /\ q.call \notin AccountRevokes
          BY <3>1 DEF AccountRequests, AccountCall, Asks, AccountFactors, AccountRevokes
        <3>4. PICK status \in {"none", "error", "notice"} :
                 view' = [view EXCEPT !.busy = @ \cup {"sessions"}, !.status = status]
          <4>1. \/ view' = [view EXCEPT !.busy = @ \cup {"sessions"}, !.status = "none"]
                \/ view' = [view EXCEPT !.busy = @ \cup {"sessions"}, !.status = view.status]
            BY <2>1 DEF AccountRefresh
          <4>2. view.status \in {"none", "error", "notice"}
            BY <1>1 DEF AccountViews
          <4> QED BY <4>1, <4>2
        <3>5. /\ view' \in AccountViews /\ view'.busy = view.busy \cup {"sessions"}
              /\ view'.row = view.row
          BY <1>1, <3>4 DEF AccountViews
        <3>6. view'.busy = view.busy \cup ({q.flag} \ {""}) /\ q.flag \notin AccountForms
          BY <3>3, <3>5 DEF AccountForms
        <3> QED BY <3>2, <3>3, <3>5, <3>6, AccountSendKeeps
      <2>2. CASE AccountRevokeAll
        <3>1. view' = [view EXCEPT !.row = All, !.status = "none"]
          BY <2>2 DEF AccountRevokeAll
        <3>2. view' \in AccountViews /\ view'.busy = view.busy /\ view'.row = All
          BY <1>1, <3>1 DEF AccountViews
        <3>3. "revoke_all" \in AccountRevokes
          BY DEF AccountRevokes
        <3> QED BY <1>2, <2>2, <3>2, <3>3, AccountSubject DEF AccountRevokeAll
      <2>3. ASSUME NEW i \in Items, AccountRevoke(i)
            PROVE  AccountInv'
        <3>1. view' = [view EXCEPT !.row = i, !.status = "none"]
          BY <2>3 DEF AccountRevoke
        <3>2. view' \in AccountViews /\ view'.busy = view.busy /\ view'.row = i
          BY <1>1, <3>1, AccountSubject DEF AccountViews
        <3>3. "revoke" \in AccountRevokes /\ i \in AccountSubjects
          BY AccountSubject DEF AccountRevokes
        <3> QED BY <1>2, <2>3, <3>2, <3>3 DEF AccountRevoke
      <2> QED BY <1>3, <2>1, <2>2, <2>3 DEF AccountSessions
    <1>4. CASE AccountTwoFactor
      <2>1. CASE AccountCode
        <3>1. view' = [view EXCEPT !.code = "typed"] /\ UNCHANGED net /\ Moves
          BY <2>1 DEF AccountCode, Moves
        <3>2. view' \in AccountViews /\ view'.busy = view.busy /\ view'.row = view.row
          BY <1>1, <3>1 DEF AccountViews
        <3> QED BY <3>1, <3>2, AccountQuiet
      <2>2. ASSUME NEW call \in AccountFactors, NEW allowed, AccountFactor(call, allowed)
            PROVE  AccountInv'
        <3>1. view' = [view EXCEPT !.busy = @ \cup {"factor"}, !.status = "none"]
          BY <2>2 DEF AccountFactor, AccountRaise
        <3>2. /\ view' \in AccountViews /\ view'.busy = view.busy \cup {"factor"}
              /\ view'.row = view.row
          BY <1>1, <3>1 DEF AccountViews
        <3>3. "factor" \notin view.busy /\ MayWrite(call) /\ Input
              /\ Sends({}, {Write(call, None, "factor")})
          BY <2>2 DEF AccountFactor
        <3> QED BY <1>2, <3>2, <3>3, AccountSubject
      <2> QED BY <1>4, <2>1, <2>2 DEF AccountTwoFactor, AccountFactors
    <1>5. CASE AccountPassword
      <2>1. ASSUME NEW d \in {"partial", "complete"}, AccountType(d)
            PROVE  AccountInv'
        <3>1. view' = [view EXCEPT !.password = d] /\ UNCHANGED net /\ Moves
          BY <2>1 DEF AccountType, Moves
        <3>2. view' \in AccountViews /\ view'.busy = view.busy /\ view'.row = view.row
          BY <1>1, <3>1 DEF AccountViews, Drafts
        <3> QED BY <3>1, <3>2, AccountQuiet
      <2>2. CASE AccountChange
        <3>1. view' = [view EXCEPT !.busy = @ \cup {"password"}, !.status = "none"]
          BY <2>2 DEF AccountChange, AccountRaise
        <3>2. /\ view' \in AccountViews /\ view'.busy = view.busy \cup {"password"}
              /\ view'.row = view.row
          BY <1>1, <3>1 DEF AccountViews
        <3>3. "password" \notin view.busy /\ MayWrite("password") /\ Input
              /\ Sends({}, {Write("password", None, "password")})
          BY <2>2 DEF AccountChange
        <3> QED BY <1>2, <3>2, <3>3, AccountSubject
      <2> QED BY <1>5, <2>1, <2>2 DEF AccountPassword
    <1>6. CASE AccountLeave
      <2>1. view' = [view EXCEPT !.leaving = FALSE, !.out = TRUE] /\ UNCHANGED net /\ Moves
        BY <1>6 DEF AccountLeave, Moves
      <2>2. view' \in AccountViews /\ view'.busy = view.busy /\ view'.row = view.row
        BY <1>1, <2>1 DEF AccountViews
      <2> QED BY <2>1, <2>2, AccountQuiet
    <1> QED BY <1>3, <1>4, <1>5, <1>6

AccountAnswered(r) ==
    \/ AccountListed(r) \/ AccountRevoked(r) \/ AccountRevokedAll(r)
    \/ AccountFactored(r) \/ AccountReread(r) \/ AccountChanged(r)

LEMMA AccountAnswersKeep ==
    ASSUME AccountInv, NEW r \in net, AccountAnswered(r)
    PROVE  AccountInv'
    <1>1. /\ view \in AccountViews /\ Frame(AccountRequests, AccountForms) /\ Covered
          /\ r \in Requests(AccountSubjects, AccountCalls, AccountFlags)
          /\ AccountCall(r) /\ r.saw \in Versions /\ AccountHeld
      BY AccountFacts
    <1>2. Moves
      BY DEF Moves, AccountAnswered, AccountListed, AccountRevoked, AccountRevokedAll,
             AccountFactored, AccountReread, AccountChanged
    <1>3. ASSUME Sends({r}, {}), view' \in AccountViews, view'.busy = view.busy \ {r.flag},
                 view'.row = None \/ (view'.row = view.row /\ r.call \notin AccountRevokes)
          PROVE  AccountInv'
      <2>1. \A f \in AccountForms : f \in view.busy /\ f # r.flag => f \in view'.busy
        BY <1>3
      <2>2. Frame(AccountRequests, AccountForms)' /\ Covered'
        BY <1>1, <1>2, <1>3, <2>1, FrameAnswered
      <2>3. AccountHeld'
        BY <1>1, <1>3 DEF AccountHeld, Sends
      <2> QED BY <1>3, <2>2, <2>3 DEF AccountInv
    <1>4. ASSUME NEW q \in AccountRequests, q.kind = "read", Sends({r}, {q}),
                 view' \in AccountViews, view'.row = view.row,
                 q.call = r.call, q.arg = r.arg, view'.busy = view.busy \cup {q.flag},
                 r.flag = "" \/ r.flag = q.flag,
                 q.flag \in AccountForms => q.flag = r.flag
          PROVE  AccountInv'
      <2>1. /\ view'.busy \subseteq view.busy \cup {q.flag}
            /\ r.flag \in view'.busy => r.flag = q.flag
            /\ q.flag \in AccountForms
                 => q.flag = r.flag /\ (q.flag \in view.busy => q.flag \in view'.busy)
        BY <1>4 DEF AccountViews
      <2>2. \A f \in AccountForms : f \in view.busy /\ f # r.flag => f \in view'.busy
        BY <1>4
      <2>3. Frame(AccountRequests, AccountForms)' /\ Covered'
        BY <1>1, <1>2, <1>4, <2>1, <2>2, FrameReread
      <2>4. AccountHeld'
        BY <1>1, <1>4 DEF AccountHeld, Sends
      <2> QED BY <1>4, <2>3, <2>4 DEF AccountInv
    <1>5. "" \notin view.busy
      BY <1>1 DEF AccountViews, AccountForms
    <1>6. CASE AccountListed(r)
      <2>1. r.flag = "sessions" /\ r.call \in {"sessions", "revoke"} /\ Sends({r}, {})
        BY <1>1, <1>6 DEF AccountListed, Reads, Answered, AccountCall
      <2>2. PICK row : row = IF r.call = "revoke" THEN None ELSE view.row
        OBVIOUS
      <2> DEFINE v == [view EXCEPT !.busy = @ \ {"sessions"}, !.row = row]
      <2>3. row \in Targets \cup {All}
        BY <1>1, <2>2, AccountSubject DEF AccountViews
      <2>4. /\ v \in AccountViews /\ v.busy = view.busy \ {"sessions"} /\ v.row = row
        BY <1>1, <2>3 DEF AccountViews
      <2>5. \/ \E S \in SUBSET Items : view' = [v EXCEPT !.active = S, !.lists = r.saw]
            \/ view' = [v EXCEPT !.status = "error"]
        BY <1>6, <2>2 DEF AccountListed
      <2> HIDE DEF v
      <2>6. view' \in AccountViews /\ view'.busy = view.busy \ {"sessions"} /\ view'.row = row
        BY <1>1, <2>4, <2>5 DEF AccountViews
      <2>7. view'.row = None \/ (view'.row = view.row /\ r.call \notin AccountRevokes)
        BY <2>1, <2>2, <2>6 DEF AccountRevokes
      <2> QED BY <1>3, <2>1, <2>6, <2>7
    <1>7. CASE AccountRevoked(r)
      <2>1. r.flag = "" /\ r.call = "revoke" /\ r.kind = "write"
        BY <1>1, <1>7 DEF AccountRevoked, Wrote, Answered, AccountCall
      <2>2. CASE r.step = "served"
        <3> DEFINE q == [Reread(r) EXCEPT !.flag = "sessions"]
        <3>1. /\ Reread(r) \in Requests(AccountSubjects, AccountCalls, AccountFlags)
              /\ Asks(Reread(r), "read", r.call, r.arg, r.at, r.flag)
          BY <1>1, AskedAgain
        <3>2. /\ q \in Requests(AccountSubjects, AccountCalls, AccountFlags)
              /\ Asks(q, "read", r.call, r.arg, r.at, "sessions")
          BY <3>1 DEF Requests, Asks, AccountFlags
        <3>3. Sends({r}, {q})
          BY <1>7, <2>2 DEF AccountRevoked
        <3> HIDE DEF q
        <3>4. /\ q \in AccountRequests /\ q.kind = "read" /\ q.flag = "sessions"
              /\ q.call = r.call /\ q.arg = r.arg
          BY <2>1, <3>2 DEF AccountRequests, AccountCall, Asks, AccountFactors
        <3>5. view' = [[view EXCEPT !.busy = @ \cup {"sessions"}, !.status = "none"]
                         EXCEPT !.status = "notice"]
          BY <1>7, <2>2 DEF AccountRevoked, AccountRaise
        <3>6. /\ view' \in AccountViews /\ view'.busy = view.busy \cup {"sessions"}
              /\ view'.row = view.row
          BY <1>1, <3>5 DEF AccountViews
        <3>7. "sessions" \notin AccountForms
          BY DEF AccountForms
        <3> QED BY <1>4, <2>1, <3>3, <3>4, <3>6, <3>7
      <2>3. CASE r.step # "served"
        <3>1. view' = [view EXCEPT !.row = None, !.status = "error"] /\ Sends({r}, {})
          BY <1>7, <2>3 DEF AccountRevoked
        <3>2. view' \in AccountViews /\ view'.busy = view.busy /\ view'.row = None
          BY <1>1, <3>1, AccountSubject DEF AccountViews
        <3> QED BY <1>3, <1>5, <2>1, <3>1, <3>2
      <2> QED BY <2>2, <2>3
    <1>8. CASE AccountRevokedAll(r)
      <2>1. r.flag = "" /\ Sends({r}, {})
        BY <1>1, <1>8 DEF AccountRevokedAll, Wrote, Answered, AccountCall
      <2>2. \/ view' = [view EXCEPT !.out = TRUE, !.row = None]
            \/ view' = [view EXCEPT !.row = None, !.status = "error"]
        BY <1>8 DEF AccountRevokedAll
      <2>3. view' \in AccountViews /\ view'.busy = view.busy /\ view'.row = None
        BY <1>1, <2>2, AccountSubject DEF AccountViews
      <2> QED BY <1>3, <1>5, <2>1, <2>3
    <1>9. ASSUME NEW f \in AccountForms, NEW status \in {"error", "notice"}, NEW v,
                 v = AccountLower(view, f, status)
          PROVE  v \in AccountViews /\ v.busy = view.busy \ {f} /\ v.row = view.row
      <2>1. v = [view EXCEPT !.busy = @ \ {f}, !.status = status]
        BY <1>9 DEF AccountLower
      <2> QED BY <1>1, <2>1 DEF AccountViews
    <1>10. ASSUME r.flag \in AccountForms, r.call \notin AccountRevokes, Sends({r}, {}),
                  view' \in AccountViews, view'.busy = view.busy \ {r.flag}, view'.row = view.row
           PROVE  AccountInv'
      BY <1>3, <1>10
    <1>11. CASE AccountFactored(r)
      <2>1. r.flag = "factor" /\ r.flag \in AccountForms /\ r.call \notin AccountRevokes
        BY <1>1, <1>11
           DEF AccountFactored, Wrote, Answered, AccountCall, AccountFactors, AccountForms,
               AccountRevokes
      <2>2. CASE view' = AccountLower(view, "factor", "error") /\ Sends({r}, {})
        <3>1. view' \in AccountViews /\ view'.busy = view.busy \ {"factor"} /\ view'.row = view.row
          BY <1>9, <2>1, <2>2
        <3> QED BY <1>10, <2>1, <2>2, <3>1
      <2>3. ASSUME NEW c \in {"blank", "typed"}, Sends({r}, {}),
                   view' = [AccountLower(view, "factor", "notice") EXCEPT !.code = c]
            PROVE  AccountInv'
        <3>1. PICK v : v = AccountLower(view, "factor", "notice")
          OBVIOUS
        <3>2. v \in AccountViews /\ v.busy = view.busy \ {"factor"} /\ v.row = view.row
          BY <1>9, <2>1, <3>1
        <3>3. view' = [v EXCEPT !.code = c]
          BY <2>3, <3>1
        <3>4. view' \in AccountViews /\ view'.busy = view.busy \ {"factor"} /\ view'.row = view.row
          BY <3>2, <3>3 DEF AccountViews
        <3> QED BY <1>10, <2>1, <2>3, <3>4
      <2>4. CASE Sends({r}, {Reread(r)}) /\ view' = [view EXCEPT !.code = "none"]
        <3> DEFINE q == Reread(r)
        <3>1. /\ q \in Requests(AccountSubjects, AccountCalls, AccountFlags)
              /\ Asks(q, "read", r.call, r.arg, r.at, r.flag) /\ Sends({r}, {q})
          BY <1>1, <2>4, AskedAgain
        <3> HIDE DEF q
        <3>2. /\ q \in AccountRequests /\ q.kind = "read" /\ q.flag = r.flag
              /\ q.call = r.call /\ q.arg = r.arg
          BY <1>1, <1>11, <2>1, <3>1
             DEF AccountRequests, AccountCall, Asks, AccountFactors, AccountRevokes,
                 AccountFactored, Wrote, Answered
        <3>3. r.flag \in view.busy
          BY <1>1, <2>1 DEF Frame
        <3>4. /\ view' \in AccountViews /\ view'.busy = view.busy /\ view'.row = view.row
          BY <1>1, <2>4 DEF AccountViews
        <3>5. view'.busy = view.busy \cup {q.flag}
          BY <3>2, <3>3, <3>4
        <3> QED BY <1>4, <3>1, <3>2, <3>4, <3>5
      <2> QED BY <1>11, <2>2, <2>3, <2>4 DEF AccountFactored
    <1>12. CASE AccountReread(r)
      <2>1. /\ r.flag = "factor" /\ r.flag \in AccountForms /\ r.call \notin AccountRevokes
            /\ Sends({r}, {})
        BY <1>1, <1>12
           DEF AccountReread, Reads, Answered, AccountCall, AccountFactors, AccountForms,
               AccountRevokes
      <2>2. CASE r.step = "served"
        <3>1. PICK v, b : v = AccountLower(view, "factor", "notice") /\ b = (r.call = "verify")
          OBVIOUS
        <3>2. v \in AccountViews /\ v.busy = view.busy \ {"factor"} /\ v.row = view.row
          BY <1>9, <2>1, <3>1
        <3>3. view' = [v EXCEPT !.enabled = b] /\ b \in BOOLEAN
          BY <1>12, <2>2, <3>1 DEF AccountReread
        <3>4. view' \in AccountViews /\ view'.busy = view.busy \ {"factor"} /\ view'.row = view.row
          BY <3>2, <3>3 DEF AccountViews
        <3> QED BY <1>10, <2>1, <3>4
      <2>3. CASE r.step # "served"
        <3>1. view' = AccountLower(view, "factor", "error")
          BY <1>12, <2>3 DEF AccountReread
        <3>2. view' \in AccountViews /\ view'.busy = view.busy \ {"factor"} /\ view'.row = view.row
          BY <1>9, <2>1, <3>1
        <3> QED BY <1>10, <2>1, <3>2
      <2> QED BY <2>2, <2>3
    <1>13. CASE AccountChanged(r)
      <2>1. /\ r.flag = "password" /\ r.flag \in AccountForms /\ r.call \notin AccountRevokes
            /\ Sends({r}, {})
        BY <1>1, <1>13
           DEF AccountChanged, Wrote, Answered, AccountCall, AccountForms, AccountRevokes
      <2>2. CASE r.step = "served"
        <3>1. PICK v : v = AccountLower(view, "password", "notice")
          OBVIOUS
        <3>2. v \in AccountViews /\ v.busy = view.busy \ {"password"} /\ v.row = view.row
          BY <1>9, <2>1, <3>1
        <3>3. view' = [v EXCEPT !.password = "blank", !.leaving = TRUE]
          BY <1>13, <2>2, <3>1 DEF AccountChanged
        <3>4. /\ view' \in AccountViews /\ view'.busy = view.busy \ {"password"}
              /\ view'.row = view.row
          BY <3>2, <3>3 DEF AccountViews, Drafts
        <3> QED BY <1>10, <2>1, <3>4
      <2>3. CASE r.step # "served"
        <3>1. view' = AccountLower(view, "password", "error")
          BY <1>13, <2>3 DEF AccountChanged
        <3>2. /\ view' \in AccountViews /\ view'.busy = view.busy \ {"password"}
              /\ view'.row = view.row
          BY <1>9, <2>1, <3>1
        <3> QED BY <1>10, <2>1, <3>2
      <2> QED BY <2>2, <2>3
    <1> QED BY <1>6, <1>7, <1>8, <1>11, <1>12, <1>13 DEF AccountAnswered

LEMMA AccountStep ==
    ASSUME AccountInv, AccountNext
    PROVE  AccountInv'
    BY AccountUserKeeps, AccountAnswersKeep DEF AccountNext, AccountAnswered

\* A password that was typed is emptied by its user, or when it was changed.
LEMMA AccountDrafts ==
    ASSUME AccountInv, AccountNext, inputs' = inputs,
           view.password # "blank", ~view.leaving,
           ~(view'.password # "blank" /\ ~view'.leaving)
    PROVE  \E r \in net \ net' : r.flag = "password" /\ r.step = "served"
    <1>1. view \in AccountViews /\ inputs \in Nat
      BY AccountFacts DEF Frame
    <1>2. ~Input
      BY <1>1 DEF Input
    <1>3. ~AccountLeave
      BY DEF AccountLeave
    <1>4. PICK r \in net : AccountAnswered(r)
      BY <1>2, <1>3
         DEF AccountNext, AccountAnswered, AccountSessions, AccountRefresh, AccountRevokeAll,
             AccountRevoke, AccountTwoFactor, AccountCode, AccountFactor, AccountPassword,
             AccountChange, AccountType
    <1>5. ASSUME view'.password = view.password, view'.leaving = view.leaving
          PROVE  FALSE
      BY <1>5
    <1>6. ASSUME NEW f, NEW status, NEW v, v = AccountLower(view, f, status)
          PROVE  DOMAIN v = DOMAIN view /\ v.password = view.password /\ v.leaving = view.leaving
      BY <1>1, <1>6 DEF AccountLower, AccountViews
    <1>7. "password" \in DOMAIN view /\ "leaving" \in DOMAIN view
      BY <1>1 DEF AccountViews
    <1>8. ~AccountListed(r)
      <2>1. SUFFICES ASSUME AccountListed(r) PROVE FALSE
        OBVIOUS
      <2>2. PICK row : row = IF r.call = "revoke" THEN None ELSE view.row
        OBVIOUS
      <2> DEFINE v == [view EXCEPT !.busy = @ \ {"sessions"}, !.row = row]
      <2>3. DOMAIN v = DOMAIN view /\ v.password = view.password /\ v.leaving = view.leaving
        BY <1>1 DEF AccountViews
      <2>4. \/ \E S \in SUBSET Items : view' = [v EXCEPT !.active = S, !.lists = r.saw]
            \/ view' = [v EXCEPT !.status = "error"]
        BY <2>1, <2>2 DEF AccountListed
      <2> HIDE DEF v
      <2> QED BY <1>5, <1>7, <2>3, <2>4
    <1>9. ~AccountRevoked(r) /\ ~AccountRevokedAll(r)
      BY <1>1, <1>5 DEF AccountRevoked, AccountRevokedAll, AccountRaise, AccountViews
    <1>10. ~AccountFactored(r)
      <2>1. SUFFICES ASSUME AccountFactored(r) PROVE FALSE
        OBVIOUS
      <2>2. PICK v : v = AccountLower(view, "factor", "notice")
        OBVIOUS
      <2>3. \/ view' = AccountLower(view, "factor", "error")
            \/ \E c : view' = [v EXCEPT !.code = c]
            \/ view' = [view EXCEPT !.code = "none"]
        BY <2>1, <2>2 DEF AccountFactored
      <2>4. DOMAIN v = DOMAIN view /\ v.password = view.password /\ v.leaving = view.leaving
        BY <1>6, <2>2
      <2>5. CASE view' = AccountLower(view, "factor", "error")
        BY <1>5, <1>6, <2>5
      <2> QED BY <1>5, <1>7, <2>3, <2>4, <2>5
    <1>11. ~AccountReread(r)
      <2>1. SUFFICES ASSUME AccountReread(r) PROVE FALSE
        OBVIOUS
      <2>2. PICK v : v = AccountLower(view, "factor", "notice")
        OBVIOUS
      <2>3. \/ view' = AccountLower(view, "factor", "error")
            \/ \E b : view' = [v EXCEPT !.enabled = b]
        BY <2>1, <2>2 DEF AccountReread
      <2>4. DOMAIN v = DOMAIN view /\ v.password = view.password /\ v.leaving = view.leaving
        BY <1>6, <2>2
      <2>5. CASE view' = AccountLower(view, "factor", "error")
        BY <1>5, <1>6, <2>5
      <2> QED BY <1>5, <1>7, <2>3, <2>4, <2>5
    <1>12. CASE AccountChanged(r)
      <2>1. r.flag = "password" /\ net' = net \ {r}
        BY <1>12, AccountFacts DEF AccountChanged, Wrote, Answered, AccountCall, Sends
      <2>2. r.step = "served"
        <3>1. SUFFICES ASSUME r.step # "served" PROVE FALSE
          OBVIOUS
        <3>2. view' = AccountLower(view, "password", "error")
          BY <1>12, <3>1 DEF AccountChanged
        <3> QED BY <1>5, <1>6, <3>2
      <2> QED BY <2>1, <2>2
    <1> QED BY <1>4, <1>8, <1>9, <1>10, <1>11, <1>12 DEF AccountAnswered

LEMMA AccountServed ==
    ASSUME AccountInv, NEW groups, Network(groups)
    PROVE  AccountInv' /\ UNCHANGED <<view, inputs>>
    <1>1. /\ AccountRequests \in SUBSET Requests(AccountSubjects, AccountCalls, AccountFlags)
          /\ Unanswered(AccountRequests)
      BY DEF AccountRequests, Unanswered, AccountCall, Requests
    <1>2. /\ Frame(AccountRequests, AccountForms)' /\ Covered' /\ UNCHANGED <<view, inputs>>
          /\ \E r \in net : \E step, saw : Served(r, step, saw)
      BY <1>1, FrameServed DEF AccountInv
    <1>3. AccountHeld'
      <2>0. PICK r \in net : \E step, saw : Served(r, step, saw)
        BY <1>2
      <2>1. PICK step, saw : Served(r, step, saw)
        BY <2>0
      <2> DEFINE s == [r EXCEPT !.step = step, !.saw = saw]
      <2>2. s.call = r.call /\ s.arg = r.arg
        BY AccountFacts DEF Requests
      <2>3. net' = (net \ {r}) \cup {s}
        BY <2>1 DEF Served
      <2> HIDE DEF s
      <2> QED BY <1>2, <2>2, <2>3, AccountFacts DEF AccountHeld
    <1> QED BY <1>2, <1>3 DEF AccountInv

LEMMA AccountStutters ==
    ASSUME AccountInv, UNCHANGED screen
    PROVE  AccountInv'
    <1>1. Frame(AccountRequests, AccountForms)' /\ Covered' /\ UNCHANGED <<view, net>>
      BY FrameStutters DEF AccountInv, screen
    <1> QED BY <1>1 DEF AccountInv, AccountHeld

-----------------------------------------------------------------------------
(* The console of the roles *)

IamSubjects == Targets \cup Queries
IamCalls == {"events", "matrix", "role", "review"}
IamFlags == {"", "events", "role", "review"}
IamForms == {"role", "review"}
IamCall(r) ==
    /\ r.call = "events" => r.kind = "read" /\ r.flag = "events" /\ r.arg \in Queries
    /\ r.call = "matrix" => r.kind = "read" /\ r.flag = ""
    /\ r.call = "role" => r.flag = "role" /\ r.arg \in Targets
    /\ r.call = "review" => r.flag = "review" /\ r.arg \in Queries
IamRequests == {r \in Requests(IamSubjects, IamCalls, IamFlags) : IamCall(r)}

IamInv == view \in IamViews /\ Frame(IamRequests, IamForms) /\ Covered

LEMMA IamSubject ==
    /\ None \in IamSubjects /\ NoWord \in IamSubjects /\ NoWord \in Queries
    /\ None \in Targets /\ Items \subseteq Targets
    /\ Targets \subseteq IamSubjects /\ Queries \subseteq IamSubjects
    BY DEF IamSubjects, Targets, Queries

LEMMA IamStart ==
    ASSUME IamInit
    PROVE  IamInv
    <1> DEFINE p == Request("read", "events", NoWord, "events", 1)
               q == Keeping(Request("read", "matrix", None, "", 1), None)
    <1>1. /\ p \in Requests(IamSubjects, IamCalls, IamFlags)
          /\ Asks(p, "read", "events", NoWord, None, "events")
          /\ q \in Requests(IamSubjects, IamCalls, IamFlags)
          /\ Asks(q, "read", "matrix", None, None, "")
      <2>1. {"events", "matrix"} \subseteq IamCalls /\ {"", "events"} \subseteq IamFlags
        BY DEF IamCalls, IamFlags
      <2> QED BY <2>1, IamSubject, FirstAsked
    <1>2. net = {p, q} /\ Start
      BY DEF IamInit, Mounted, Keeping
    <1> HIDE DEF p, q
    <1>3. /\ p \in IamRequests /\ p.kind = "read" /\ p.flag = "events"
          /\ q \in IamRequests /\ q.kind = "read" /\ q.flag = ""
      BY <1>1, IamSubject DEF IamRequests, IamCall, Asks
    <1>4. Frame(IamRequests, IamForms)
      <2>1. net \subseteq IamRequests /\ \A r \in net : r.kind = "read" /\ r.flag \notin IamForms
        BY <1>2, <1>3 DEF IamForms
      <2> QED BY <1>2, <2>1, FrameStart
    <1>5. view \in IamViews /\ view.busy = {"events"}
      <2>1. 0 \in Versions
        BY MaxWritesNat DEF Versions
      <2> QED BY <2>1, IamSubject DEF IamInit, IamViews, Drafts
    <1>6. Covered
      BY <1>2, <1>3, <1>5 DEF Covered, HasRequest
    <1> QED BY <1>4, <1>5, <1>6 DEF IamInv

LEMMA IamFacts ==
    ASSUME IamInv
    PROVE  /\ view \in IamViews /\ Frame(IamRequests, IamForms) /\ Covered
           /\ \A r \in net : /\ r \in Requests(IamSubjects, IamCalls, IamFlags)
                             /\ IamCall(r) /\ r.saw \in Versions
    <1>1. \A r \in net : r \in Requests(IamSubjects, IamCalls, IamFlags) /\ IamCall(r)
      BY DEF IamInv, Frame, IamRequests
    <1> QED BY <1>1 DEF IamInv, Requests

LEMMA IamSendKeeps ==
    ASSUME IamInv, NEW call \in IamForms, call \notin view.busy, NEW arg,
           call = "role" => arg \in Targets, call = "review" => arg \in Queries,
           IamSend(call, arg)
    PROVE  IamInv'
    <1> DEFINE q == Keeping(Write(call, arg, call), arg)
    <1>1. view \in IamViews /\ Frame(IamRequests, IamForms) /\ Covered
      BY IamFacts
    <1>2. MayWrite(call) /\ Sends({}, {q}) /\ Moves
      BY DEF IamSend, Moves
    <1>3. /\ q \in Requests(IamSubjects, IamCalls, IamFlags)
          /\ Asks(q, "write", call, arg, arg, call)
      <2>1. call \in IamCalls /\ call \in IamFlags /\ Unsent(call) /\ arg \in IamSubjects
        BY <1>2, IamSubject DEF IamCalls, IamFlags, MayWrite, IamForms
      <2> QED BY <2>1, IamSubject, NewAsked
    <1> HIDE DEF q
    <1>4. q \in IamRequests /\ q.flag = call /\ MayWrite(q.call)
      BY <1>2, <1>3 DEF IamRequests, IamCall, Asks, IamForms
    <1>5. view' \in IamViews /\ view'.busy = view.busy \cup {call}
      BY <1>1 DEF IamSend, IamViews, IamForms
    <1>6. Frame(IamRequests, IamForms)' /\ Covered'
      BY <1>1, <1>2, <1>4, <1>5, FrameSent
    <1> QED BY <1>5, <1>6 DEF IamInv

LEMMA IamUserKeeps ==
    ASSUME IamInv, IamFilters \/ IamReviewForm \/ IamRoles \/ IamRoleForm
    PROVE  IamInv'
    <1>1. view \in IamViews /\ Frame(IamRequests, IamForms) /\ Covered
      BY IamFacts
    <1>2. ASSUME UNCHANGED net, Input, view' \in IamViews, view'.busy = view.busy
          PROVE  IamInv'
      <2>1. Moves
        BY <1>2 DEF Moves
      <2>2. Frame(IamRequests, IamForms)' /\ Covered'
        BY <1>1, <1>2, <2>1, FrameQuiet
      <2> QED BY <1>2, <2>2 DEF IamInv
    <1>3. ASSUME NEW w \in Queries, IamFilter(w)
          PROVE  IamInv'
      <2> DEFINE q == Read("events", w, "events")
      <2>1. q \in IamRequests /\ q.kind = "read" /\ q.flag = "events"
        <3>1. /\ "events" \in IamCalls /\ "events" \in IamFlags /\ w \in IamSubjects
              /\ Unsent("events")
          BY <1>3, IamSubject DEF IamCalls, IamFlags, IamFilter
        <3>2. /\ q \in Requests(IamSubjects, IamCalls, IamFlags)
              /\ Asks(q, "read", "events", w, None, "events")
          BY <3>1, IamSubject, NewAsked
        <3> HIDE DEF q
        <3> QED BY <3>2 DEF IamRequests, IamCall, Asks
      <2>2. Sends({}, {q}) /\ Moves
        BY <1>3 DEF IamFilter, Moves
      <2> HIDE DEF q
      <2>3. view' \in IamViews /\ view'.busy = view.busy \cup {"events"}
        BY <1>1, <1>3 DEF IamFilter, IamViews
      <2>4. q.kind # "write" /\ q.flag \notin IamForms
        BY <2>1 DEF IamForms
      <2>5. Frame(IamRequests, IamForms)' /\ Covered'
        BY <1>1, <2>1, <2>2, <2>3, <2>4, FrameSent
      <2> QED BY <2>3, <2>5 DEF IamInv
    <1>4. CASE IamReviewForm
      <2>1. ASSUME NEW d \in {"partial", "complete"}, IamWrite(d)
            PROVE  IamInv'
        <3>1. view' \in IamViews /\ view'.busy = view.busy
          BY <1>1, <2>1 DEF IamWrite, IamViews, Drafts
        <3> QED BY <1>2, <2>1, <3>1 DEF IamWrite
      <2>2. CASE IamReview
        <3>1. "review" \in IamForms /\ "review" # "role" /\ view.filter \in Queries
          BY <1>1 DEF IamForms, IamViews
        <3> QED BY <2>2, <3>1, IamSendKeeps DEF IamReview
      <2> QED BY <1>4, <2>1, <2>2 DEF IamReviewForm
    <1>5. CASE IamRoles
      <2>1. CASE IamNew
        <3>1. view' \in IamViews /\ view'.busy = view.busy
          BY <1>1, <2>1, IamSubject DEF IamNew, IamViews, Drafts
        <3> QED BY <1>2, <2>1, <3>1 DEF IamNew
      <2>2. ASSUME NEW i \in Items, IamSelect(i)
            PROVE  IamInv'
        <3>1. view' \in IamViews /\ view'.busy = view.busy
          BY <1>1, <2>2, IamSubject DEF IamSelect, IamViews, Drafts
        <3> QED BY <1>2, <2>2, <3>1 DEF IamSelect
      <2> QED BY <1>5, <2>1, <2>2 DEF IamRoles
    <1>6. CASE IamRoleForm
      <2>1. ASSUME NEW d \in {"partial", "complete"}, IamEdit(d)
            PROVE  IamInv'
        <3>1. view' \in IamViews /\ view'.busy = view.busy
          BY <1>1, <2>1 DEF IamEdit, IamViews, Drafts
        <3> QED BY <1>2, <2>1, <3>1 DEF IamEdit
      <2>2. CASE IamSave
        <3>1. "role" \in IamForms /\ "review" # "role" /\ view.role \in Targets
          BY <1>1 DEF IamForms, IamViews
        <3> QED BY <2>2, <3>1, IamSendKeeps DEF IamSave
      <2> QED BY <1>6, <2>1, <2>2 DEF IamRoleForm
    <1> QED BY <1>3, <1>4, <1>5, <1>6 DEF IamFilters

IamAnswered(r) ==
    \/ IamJournal(r) \/ IamLoaded(r) \/ IamSaved(r) \/ IamReread(r)
    \/ IamReviewed(r) \/ IamRejournal(r)

LEMMA IamAnswersKeep ==
    ASSUME IamInv, NEW r \in net, IamAnswered(r)
    PROVE  IamInv'
    <1>1. /\ view \in IamViews /\ Frame(IamRequests, IamForms) /\ Covered
          /\ r \in Requests(IamSubjects, IamCalls, IamFlags)
          /\ IamCall(r) /\ r.saw \in Versions
      BY IamFacts
    <1>2. Moves
      BY DEF Moves, IamAnswered, IamJournal, IamLoaded, IamSaved, IamReread, IamReviewed,
             IamRejournal
    <1>3. ASSUME Sends({r}, {}), view' \in IamViews, view'.busy = view.busy \ {r.flag}
          PROVE  IamInv'
      <2>1. \A f \in IamForms : f \in view.busy /\ f # r.flag => f \in view'.busy
        BY <1>3
      <2>2. Frame(IamRequests, IamForms)' /\ Covered'
        BY <1>1, <1>2, <1>3, <2>1, FrameAnswered
      <2> QED BY <1>3, <2>2 DEF IamInv
    <1>4. ASSUME Sends({r}, {Reread(r)}), r.flag \in IamForms,
                 view' \in IamViews, view'.busy = view.busy
          PROVE  IamInv'
      <2> DEFINE q == Reread(r)
      <2>1. /\ q \in Requests(IamSubjects, IamCalls, IamFlags)
            /\ Asks(q, "read", r.call, r.arg, r.at, r.flag) /\ Sends({r}, {q})
        BY <1>1, <1>4, AskedAgain
      <2> HIDE DEF q
      <2>2. q \in IamRequests /\ q.kind = "read" /\ q.flag = r.flag
        BY <1>1, <1>4, <2>1 DEF IamRequests, IamCall, Asks, IamForms
      <2>3. /\ view'.busy \subseteq view.busy \cup {q.flag}
            /\ r.flag \in view'.busy => r.flag = q.flag
            /\ q.flag \in IamForms
                 => q.flag = r.flag /\ (q.flag \in view.busy => q.flag \in view'.busy)
        BY <1>4, <2>2
      <2>4. \A f \in IamForms : f \in view.busy /\ f # r.flag => f \in view'.busy
        BY <1>4
      <2>5. Frame(IamRequests, IamForms)' /\ Covered'
        BY <1>1, <1>2, <2>1, <2>2, <2>3, <2>4, FrameReread
      <2> QED BY <1>4, <2>5 DEF IamInv
    <1>5. "" \notin view.busy
      BY <1>1 DEF IamViews
    <1>6. CASE IamJournal(r)
      <2>1. r.flag = "events" /\ r.arg \in Queries /\ Sends({r}, {})
        BY <1>1, <1>6 DEF IamJournal, Reads, Answered, IamCall
      <2>2. \/ view' = [view EXCEPT !.shown = r.arg, !.busy = @ \ {"events"}]
            \/ view' = [view EXCEPT !.status = "error", !.busy = @ \ {"events"}]
        BY <1>6 DEF IamJournal
      <2>3. view' \in IamViews /\ view'.busy = view.busy \ {"events"}
        BY <1>1, <2>1, <2>2 DEF IamViews
      <2> QED BY <1>3, <2>1, <2>3
    <1>7. CASE IamLoaded(r)
      <2>1. r.flag = "" /\ Sends({r}, {})
        BY <1>1, <1>7 DEF IamLoaded, Reads, Answered, IamCall
      <2>2. view' \in IamViews /\ view'.busy = view.busy
        <3>1. CASE r.step = "served"
          <4>1. PICK S \in SUBSET Items :
                   view' = IamMatrix(r, [view EXCEPT !.known = S, !.lists = r.saw])
            BY <1>7, <3>1 DEF IamLoaded
          <4> DEFINE v == [view EXCEPT !.known = S, !.lists = r.saw]
          <4>2. v \in IamViews /\ v.busy = view.busy /\ v.known = S
            BY <1>1 DEF IamViews
          <4>3. view' = IamMatrix(r, v)
            BY <4>1
          <4> HIDE DEF v
          <4>4. CASE r.at = None /\ v.known # {}
            <5>1. (CHOOSE i \in v.known : TRUE) \in Targets
              BY <4>2, <4>4, IamSubject
            <5>2. PICK i \in Targets : view' = [v EXCEPT !.role = i, !.form = "complete"]
              BY <4>3, <4>4, <5>1 DEF IamMatrix
            <5> QED BY <4>2, <5>2 DEF IamViews, Drafts
          <4>5. CASE ~(r.at = None /\ v.known # {})
            BY <4>2, <4>3, <4>5 DEF IamMatrix
          <4> QED BY <4>4, <4>5
        <3>2. CASE r.step # "served"
          BY <1>1, <1>7, <3>2 DEF IamLoaded, IamViews
        <3> QED BY <3>1, <3>2
      <2> QED BY <1>3, <1>5, <2>1, <2>2
    <1>8. CASE IamSaved(r)
      <2>1. r.flag = "role" /\ r.flag \in IamForms
        BY <1>1, <1>8 DEF IamSaved, Wrote, Answered, IamCall, IamForms
      <2>2. CASE r.step = "served"
        <3>1. view' \in IamViews /\ view'.busy = view.busy /\ Sends({r}, {Reread(r)})
          BY <1>1, <1>8, <2>2 DEF IamSaved, IamViews
        <3> QED BY <1>4, <2>1, <3>1
      <2>3. CASE r.step # "served"
        <3>1. /\ view' = [view EXCEPT !.busy = @ \ {"role"}, !.status = "error"]
              /\ Sends({r}, {})
          BY <1>8, <2>3 DEF IamSaved
        <3>2. view' \in IamViews /\ view'.busy = view.busy \ {"role"}
          BY <1>1, <3>1 DEF IamViews
        <3> QED BY <1>3, <2>1, <3>1, <3>2
      <2> QED BY <2>2, <2>3
    <1>9. CASE IamReread(r)
      <2>1. r.flag = "role" /\ r.arg \in Targets /\ Sends({r}, {})
        BY <1>1, <1>9 DEF IamReread, Reads, Answered, IamCall
      <2> DEFINE v == [view EXCEPT !.busy = @ \ {"role"}]
      <2>2. v \in IamViews /\ v.busy = view.busy \ {"role"}
        BY <1>1 DEF IamViews
      <2>3. CASE r.step = "served"
        <3>1. PICK S \in SUBSET Items, i \in (IF r.arg = None THEN Items ELSE {r.arg}) :
                 view' = [v EXCEPT !.known = S, !.lists = r.saw, !.role = i, !.form = "complete"]
          BY <1>9, <2>3 DEF IamReread
        <3>2. i \in Targets
          BY <2>1, IamSubject
        <3> HIDE DEF v
        <3>3. view' \in IamViews /\ view'.busy = view.busy \ {"role"}
          BY <1>1, <2>2, <3>1, <3>2 DEF IamViews, Drafts
        <3> QED BY <1>3, <2>1, <3>3
      <2>4. CASE r.step # "served"
        <3>1. view' = [v EXCEPT !.status = "error"]
          BY <1>9, <2>4 DEF IamReread
        <3> HIDE DEF v
        <3>2. view' \in IamViews /\ view'.busy = view.busy \ {"role"}
          BY <2>2, <3>1 DEF IamViews
        <3> QED BY <1>3, <2>1, <3>2
      <2> QED BY <2>3, <2>4
    <1>10. CASE IamReviewed(r)
      <2>1. r.flag = "review" /\ r.flag \in IamForms
        BY <1>1, <1>10 DEF IamReviewed, Wrote, Answered, IamCall, IamForms
      <2>2. CASE r.step = "served"
        <3>1. view' \in IamViews /\ view'.busy = view.busy /\ Sends({r}, {Reread(r)})
          BY <1>1, <1>10, <2>2 DEF IamReviewed, IamViews, Drafts
        <3> QED BY <1>4, <2>1, <3>1
      <2>3. CASE r.step # "served"
        <3>1. /\ view' = [view EXCEPT !.busy = @ \ {"review"}, !.status = "error"]
              /\ Sends({r}, {})
          BY <1>10, <2>3 DEF IamReviewed
        <3>2. view' \in IamViews /\ view'.busy = view.busy \ {"review"}
          BY <1>1, <3>1 DEF IamViews
        <3> QED BY <1>3, <2>1, <3>1, <3>2
      <2> QED BY <2>2, <2>3
    <1>11. CASE IamRejournal(r)
      <2>1. r.flag = "review" /\ r.arg \in Queries /\ Sends({r}, {})
        BY <1>1, <1>11 DEF IamRejournal, Reads, Answered, IamCall
      <2>2. \/ view' = [view EXCEPT !.busy = @ \ {"review"}, !.shown = r.arg]
            \/ view' = [view EXCEPT !.busy = @ \ {"review"}, !.status = "error"]
        BY <1>11 DEF IamRejournal
      <2>3. view' \in IamViews /\ view'.busy = view.busy \ {"review"}
        BY <1>1, <2>1, <2>2 DEF IamViews
      <2> QED BY <1>3, <2>1, <2>3
    <1> QED BY <1>6, <1>7, <1>8, <1>9, <1>10, <1>11 DEF IamAnswered

LEMMA IamStep ==
    ASSUME IamInv, IamNext
    PROVE  IamInv'
    BY IamUserKeeps, IamAnswersKeep DEF IamNext, IamAnswered

\* A role that was typed is emptied by its user only.
LEMMA IamDrafts ==
    ASSUME IamInv, IamNext, inputs' = inputs, view.form # "blank"
    PROVE  view'.form # "blank"
    <1>1. view \in IamViews /\ inputs \in Nat
      BY IamFacts DEF Frame
    <1>2. ~Input
      BY <1>1 DEF Input
    <1>3. PICK r \in net : IamAnswered(r)
      BY <1>2 DEF IamNext, IamAnswered, IamFilters, IamFilter, IamReviewForm, IamReview,
                  IamSend, IamWrite, IamRoles, IamNew, IamSelect, IamRoleForm, IamSave, IamEdit
    <1>4. CASE IamJournal(r)
      BY <1>1, <1>4 DEF IamJournal, IamViews
    <1>5. CASE IamLoaded(r)
      <2>1. CASE r.step = "served"
        <3>1. PICK S \in SUBSET Items :
                 view' = IamMatrix(r, [view EXCEPT !.known = S, !.lists = r.saw])
          BY <1>5, <2>1 DEF IamLoaded
        <3> DEFINE v == [view EXCEPT !.known = S, !.lists = r.saw]
        <3>2. DOMAIN v = DOMAIN view /\ v.form = view.form /\ "form" \in DOMAIN view
          BY <1>1 DEF IamViews
        <3>3. view' = IamMatrix(r, v)
          BY <3>1
        <3> HIDE DEF v
        <3> QED BY <3>2, <3>3 DEF IamMatrix
      <2>2. CASE r.step # "served"
        BY <1>1, <1>5, <2>2 DEF IamLoaded, IamViews
      <2> QED BY <2>1, <2>2
    <1>6. CASE IamSaved(r)
      BY <1>1, <1>6 DEF IamSaved, IamViews
    <1>7. CASE IamReread(r)
      <2> DEFINE v == [view EXCEPT !.busy = @ \ {"role"}]
      <2>1. DOMAIN v = DOMAIN view /\ v.form = view.form /\ "form" \in DOMAIN view
        BY <1>1 DEF IamViews
      <2>2. \/ view' = [v EXCEPT !.status = "error"]
            \/ \E S, i : view' = [v EXCEPT !.known = S, !.lists = r.saw, !.role = i,
                                           !.form = "complete"]
        BY <1>7 DEF IamReread
      <2> HIDE DEF v
      <2> QED BY <2>1, <2>2
    <1>8. CASE IamReviewed(r)
      BY <1>1, <1>8 DEF IamReviewed, IamViews
    <1>9. CASE IamRejournal(r)
      BY <1>1, <1>9 DEF IamRejournal, IamViews
    <1> QED BY <1>3, <1>4, <1>5, <1>6, <1>7, <1>8, <1>9 DEF IamAnswered

LEMMA IamServed ==
    ASSUME IamInv, NEW groups, Network(groups)
    PROVE  IamInv' /\ UNCHANGED <<view, inputs>>
    <1>1. /\ IamRequests \in SUBSET Requests(IamSubjects, IamCalls, IamFlags)
          /\ Unanswered(IamRequests)
      BY DEF IamRequests, Unanswered, IamCall, Requests
    <1>2. /\ Frame(IamRequests, IamForms)' /\ Covered' /\ UNCHANGED <<view, inputs>>
      BY <1>1, FrameServed DEF IamInv
    <1> QED BY <1>2 DEF IamInv

LEMMA IamStutters ==
    ASSUME IamInv, UNCHANGED screen
    PROVE  IamInv'
    <1>1. Frame(IamRequests, IamForms)' /\ Covered' /\ UNCHANGED view
      BY FrameStutters DEF IamInv, screen
    <1> QED BY <1>1 DEF IamInv

-----------------------------------------------------------------------------
(* The users of the hotel *)

UsersSubjects == Targets \cup Queries
UsersCalls == {"list"} \cup UsersModals
UsersFlags == {"", "save"}
UsersCall(r) ==
    /\ r.at \in Queries
    /\ r.call = "list" => r.kind = "read" /\ r.flag = ""
    /\ r.call \in UsersModals => r.flag = "save" /\ r.arg \in Targets
UsersRequests == {r \in Requests(UsersSubjects, UsersCalls, UsersFlags) : UsersCall(r)}

UsersInv == view \in UsersViews /\ Frame(UsersRequests, {"save"}) /\ Covered

LEMMA UsersSubject ==
    /\ None \in UsersSubjects /\ NoWord \in UsersSubjects /\ NoWord \in Queries
    /\ None \in Targets /\ Items \subseteq Targets
    /\ Targets \subseteq UsersSubjects /\ Queries \subseteq UsersSubjects
    /\ "list" \notin UsersModals /\ None \notin UsersModals
    BY DEF UsersSubjects, Targets, Queries, UsersModals, None

LEMMA UsersStart ==
    ASSUME UsersInit
    PROVE  UsersInv
    <1> DEFINE q == Keeping(Request("read", "list", NoWord, "", 1), NoWord)
    <1>1. /\ q \in Requests(UsersSubjects, UsersCalls, UsersFlags)
          /\ Asks(q, "read", "list", NoWord, NoWord, "")
      <2>1. "list" \in UsersCalls /\ "" \in UsersFlags
        BY DEF UsersCalls, UsersFlags
      <2> QED BY <2>1, UsersSubject, FirstAsked
    <1>2. net = {q} /\ Start
      BY DEF UsersInit
    <1> HIDE DEF q
    <1>3. q \in UsersRequests /\ q.kind = "read" /\ q.flag = ""
      BY <1>1, UsersSubject DEF UsersRequests, UsersCall, Asks
    <1>4. Frame(UsersRequests, {"save"})
      <2>1. net \subseteq UsersRequests /\ \A r \in net : r.kind = "read" /\ r.flag \notin {"save"}
        BY <1>2, <1>3
      <2> QED BY <1>2, <2>1, FrameStart
    <1>5. view \in UsersViews /\ view.busy = {}
      <2>1. 0 \in Versions
        BY MaxWritesNat DEF Versions
      <2>2. PICK p \in Profiles :
               view = [page |-> "users", rights |-> p, word |-> NoWord, rows |-> {}, lists |-> 0,
                       loading |-> TRUE, sel |-> None, modal |-> None, form |-> "blank",
                       busy |-> {}]
        BY DEF UsersInit
      <2>3. NoWord \in Queries /\ None \in Targets /\ None \in UsersModals \cup {None}
            /\ "blank" \in Drafts
        BY UsersSubject DEF Drafts
      <2> QED BY <2>1, <2>2, <2>3 DEF UsersViews
    <1>6. Covered
      BY <1>5 DEF Covered
    <1> QED BY <1>4, <1>5, <1>6 DEF UsersInv

LEMMA UsersFacts ==
    ASSUME UsersInv
    PROVE  /\ view \in UsersViews /\ Frame(UsersRequests, {"save"}) /\ Covered
           /\ \A r \in net : /\ r \in Requests(UsersSubjects, UsersCalls, UsersFlags)
                             /\ UsersCall(r) /\ r.saw \in Versions
    <1>1. \A r \in net : r \in Requests(UsersSubjects, UsersCalls, UsersFlags) /\ UsersCall(r)
      BY DEF UsersInv, Frame, UsersRequests
    <1> QED BY <1>1 DEF UsersInv, Requests

-----------------------------------------------------------------------------
(* What is selected *)

LEMMA UsersFilledTyped == \A m : UsersFilled(m) \in Drafts
    BY DEF UsersFilled, Drafts

LEMMA UsersSettledTyped ==
    ASSUME NEW v \in UsersViews, NEW u \in UsersSettled(v)
    PROVE  u \in UsersViews /\ u.busy = v.busy
    <1>1. UsersKept(v) \subseteq Targets
      <2>1. v.rows \subseteq Targets /\ v.sel \in Targets
        BY UsersSubject DEF UsersViews
      <2> QED BY <2>1, UsersSubject DEF UsersKept
    <1>2. PICK i \in UsersKept(v), form \in Drafts : u = [v EXCEPT !.sel = i, !.form = form]
      <2>1. PICK i \in UsersKept(v) :
               u = [v EXCEPT !.sel = i, !.form = IF i = v.sel \/ v.modal = "create" THEN @
                                                 ELSE UsersFilled(v.modal)]
        BY DEF UsersSettled
      <2>2. v.form \in Drafts /\ UsersFilled(v.modal) \in Drafts
        BY UsersFilledTyped DEF UsersViews
      <2>3. CASE i = v.sel \/ v.modal = "create"
        BY <2>1, <2>2, <2>3
      <2>4. CASE ~(i = v.sel \/ v.modal = "create")
        BY <2>1, <2>2, <2>4
      <2> QED BY <2>3, <2>4
    <1> QED BY <1>1, <1>2 DEF UsersViews

LEMMA UsersGotTyped ==
    ASSUME NEW v \in UsersViews, NEW r, r.saw \in Versions, NEW u \in UsersGot(v, r)
    PROVE  u \in UsersViews /\ u.busy = v.busy
    <1>1. PICK rows \in UsersRows(r) :
             u \in UsersSettled([v EXCEPT !.loading = FALSE, !.rows = rows, !.lists = r.saw])
      BY DEF UsersGot
    <1> DEFINE w == [v EXCEPT !.loading = FALSE, !.rows = rows, !.lists = r.saw]
    <1>2. rows \in SUBSET Items
      BY DEF UsersRows
    <1>3. w \in UsersViews /\ w.busy = v.busy
      BY <1>2 DEF UsersViews
    <1>4. u \in UsersSettled(w)
      BY <1>1
    <1> HIDE DEF w
    <1> QED BY <1>3, <1>4, UsersSettledTyped

-----------------------------------------------------------------------------
(* The steps of the page *)

LEMMA UsersUserKeeps ==
    ASSUME UsersInv,
           \/ UsersList \/ UsersDetail \/ UsersForm \/ UsersRole \/ UsersPassword
           \/ UsersDeactivate \/ UsersClose
    PROVE  UsersInv'
    <1>1. view \in UsersViews /\ Frame(UsersRequests, {"save"}) /\ Covered
      BY UsersFacts
    <1>2. ASSUME UNCHANGED net, Input, view' \in UsersViews, view'.busy = view.busy
          PROVE  UsersInv'
      <2>1. Moves
        BY <1>2 DEF Moves
      <2>2. Frame(UsersRequests, {"save"})' /\ Covered'
        BY <1>1, <1>2, <2>1, FrameQuiet
      <2> QED BY <1>2, <2>2 DEF UsersInv
    <1>3. ASSUME NEW w \in Queries, UsersType(w)
          PROVE  UsersInv'
      <2> DEFINE q == UsersRead(w)
                 v == [view EXCEPT !.word = w, !.loading = TRUE]
      <2>1. q \in UsersRequests /\ q.kind = "read" /\ q.flag = ""
        <3>1. "list" \in UsersCalls /\ "" \in UsersFlags /\ w \in UsersSubjects /\ Unsent("list")
          BY <1>3, UsersSubject DEF UsersCalls, UsersFlags, UsersType
        <3>2. /\ q \in Requests(UsersSubjects, UsersCalls, UsersFlags)
              /\ Asks(q, "read", "list", w, w, "")
          BY <3>1, UsersSubject, NewAsked DEF UsersRead
        <3> HIDE DEF q
        <3> QED BY <3>2, UsersSubject DEF UsersRequests, UsersCall, Asks
      <2>2. Sends({}, {q}) /\ Moves /\ view' \in UsersSettled(v)
        BY <1>3 DEF UsersType, Moves
      <2>3. v \in UsersViews /\ v.busy = view.busy
        BY <1>1 DEF UsersViews
      <2> HIDE DEF q, v
      <2>4. view' \in UsersViews /\ view'.busy = view.busy
        BY <2>2, <2>3, UsersSettledTyped
      <2>5. q.kind # "write" /\ q.flag \notin {"save"}
        BY <2>1
      <2>6. Frame(UsersRequests, {"save"})' /\ Covered'
        BY <1>1, <2>1, <2>2, <2>4, <2>5, FrameSent
      <2> QED BY <2>4, <2>6 DEF UsersInv
    <1>4. ASSUME NEW i \in Items, UsersSelect(i)
          PROVE  UsersInv'
      <2>1. view' = [view EXCEPT !.sel = i, !.form = UsersFilled(view.modal)]
            /\ UNCHANGED net /\ Input
        BY <1>4 DEF UsersSelect
      <2>2. i \in Targets /\ UsersFilled(view.modal) \in Drafts
        BY UsersSubject, UsersFilledTyped
      <2>3. view' \in UsersViews /\ view'.busy = view.busy
        BY <1>1, <2>1, <2>2 DEF UsersViews
      <2> QED BY <1>2, <2>1, <2>3
    <1>5. ASSUME NEW m \in UsersModals, UsersOpen(m)
          PROVE  UsersInv'
      <2>1. view' = [view EXCEPT !.modal = m, !.form = UsersFilled(m)] /\ UNCHANGED net /\ Input
        BY <1>5 DEF UsersOpen
      <2>2. UsersFilled(m) \in Drafts
        BY UsersFilledTyped
      <2>3. view' \in UsersViews /\ view'.busy = view.busy
        BY <1>1, <2>1, <2>2 DEF UsersViews
      <2> QED BY <1>2, <2>1, <2>3
    <1>6. CASE UsersClose
      <2>1. view' \in UsersViews /\ view'.busy = view.busy
        BY <1>1, <1>6 DEF UsersClose, UsersViews
      <2> QED BY <1>2, <1>6, <2>1 DEF UsersClose
    <1>7. CASE UsersFields
      <2>1. PICK d \in {"partial", "complete"} : UsersFill(d)
        BY <1>7 DEF UsersFields
      <2>2. view' \in UsersViews /\ view'.busy = view.busy
        BY <1>1, <2>1 DEF UsersFill, UsersViews, Drafts
      <2> QED BY <1>2, <2>1, <2>2 DEF UsersFill
    <1>8. CASE UsersSave
      <2> DEFINE arg == IF view.modal = "create" THEN None ELSE view.sel
                 call == view.modal
                 w == view.word
                 q == Keeping(Write(call, arg, "save"), w)
      <2>1. call \in UsersModals /\ arg \in Targets /\ w \in Queries
        BY <1>1, <1>8, UsersSubject
           DEF UsersSave, UsersSend, UsersShown, UsersViews, UsersModals
      <2>2. /\ Sends({}, {q}) /\ Moves /\ MayWrite(call) /\ "save" \notin view.busy
            /\ view' = [view EXCEPT !.busy = {"save"}]
        BY <1>8 DEF UsersSave, UsersSend, Moves
      <2> HIDE DEF call, arg, w
      <2>3. /\ q \in Requests(UsersSubjects, UsersCalls, UsersFlags)
            /\ Asks(q, "write", call, arg, w, "save")
        <3>1. /\ call \in UsersCalls /\ "save" \in UsersFlags /\ Unsent(call)
              /\ arg \in UsersSubjects /\ w \in UsersSubjects
          BY <2>1, <2>2, UsersSubject DEF UsersCalls, UsersFlags, MayWrite
        <3> QED BY <3>1, UsersSubject, NewAsked
      <2> HIDE DEF q
      <2>4. q \in UsersRequests /\ q.flag = "save" /\ MayWrite(q.call)
        BY <2>1, <2>2, <2>3, UsersSubject DEF UsersRequests, UsersCall, Asks
      <2>5. view' \in UsersViews /\ view'.busy = view.busy \cup {"save"}
        BY <1>1, <2>2 DEF UsersViews
      <2>6. Frame(UsersRequests, {"save"})' /\ Covered'
        BY <1>1, <2>2, <2>4, <2>5, FrameSent
      <2> QED BY <2>5, <2>6 DEF UsersInv
    <1>9. "create" \in UsersModals
      BY DEF UsersModals
    <1> QED BY <1>3, <1>4, <1>5, <1>6, <1>7, <1>8, <1>9
            DEF UsersList, UsersDetail, UsersForm, UsersRole, UsersPassword, UsersDeactivate

LEMMA UsersAnswersKeep ==
    ASSUME UsersInv, NEW r \in net, UsersListed(r) \/ UsersWritten(r) \/ UsersReread(r)
    PROVE  UsersInv'
    <1>1. /\ view \in UsersViews /\ Frame(UsersRequests, {"save"}) /\ Covered
          /\ r \in Requests(UsersSubjects, UsersCalls, UsersFlags)
          /\ UsersCall(r) /\ r.saw \in Versions
      BY UsersFacts
    <1>2. Moves
      BY DEF Moves, UsersListed, UsersWritten, UsersReread
    <1>3. ASSUME Sends({r}, {}), view' \in UsersViews, view'.busy = view.busy \ {r.flag}
          PROVE  UsersInv'
      <2>1. \A f \in {"save"} : f \in view.busy /\ f # r.flag => f \in view'.busy
        BY <1>3
      <2>2. Frame(UsersRequests, {"save"})' /\ Covered'
        BY <1>1, <1>2, <1>3, <2>1, FrameAnswered
      <2> QED BY <1>3, <2>2 DEF UsersInv
    <1>4. view.busy \ {"save"} = {} /\ view.busy \ {""} = view.busy
      BY <1>1 DEF UsersViews
    <1>5. CASE UsersListed(r)
      <2>1. r.flag = "" /\ Sends({r}, {})
        BY <1>1, <1>5 DEF UsersListed, Reads, Answered, UsersCall
      <2>2. view' \in UsersViews /\ view'.busy = view.busy
        <3>1. CASE r.step = "served"
          <4>1. view' \in UsersGot(view, r)
            BY <1>5, <3>1 DEF UsersListed
          <4> QED BY <1>1, <4>1, UsersGotTyped
        <3>2. CASE r.step # "served"
          <4>1. view' = [view EXCEPT !.loading = FALSE]
            BY <1>5, <3>2 DEF UsersListed
          <4> QED BY <1>1, <4>1 DEF UsersViews
        <3> QED BY <3>1, <3>2
      <2> QED BY <1>3, <1>4, <2>1, <2>2
    <1>6. CASE UsersReread(r)
      <2>1. r.flag = "save" /\ r.arg \in Targets /\ Sends({r}, {})
        BY <1>1, <1>6 DEF UsersReread, Reads, Answered, UsersCall
      <2> DEFINE v == [view EXCEPT !.busy = {}]
                 done == [v EXCEPT !.modal = None,
                                   !.sel = IF r.call = "deactivate" THEN @ ELSE r.arg]
      <2>2. v \in UsersViews /\ v.busy = {}
        BY <1>1 DEF UsersViews
      <2>3. \/ view' \in UsersGot(done, r)
            \/ view' = [v EXCEPT !.loading = FALSE]
        BY <1>6 DEF UsersReread
      <2> HIDE DEF v
      <2>4. done \in UsersViews /\ done.busy = {}
        <3>1. PICK sel \in Targets : done = [v EXCEPT !.modal = None, !.sel = sel]
          BY <2>1, <2>2 DEF UsersViews
        <3> HIDE DEF done
        <3> QED BY <2>2, <3>1 DEF UsersViews
      <2> HIDE DEF done
      <2>5. CASE view' \in UsersGot(done, r)
        BY <1>1, <1>3, <1>4, <2>1, <2>4, <2>5, UsersGotTyped
      <2>6. CASE view' = [v EXCEPT !.loading = FALSE]
        <3>1. view' \in UsersViews /\ view'.busy = {}
          BY <2>2, <2>6 DEF UsersViews
        <3> QED BY <1>3, <1>4, <2>1, <3>1
      <2> QED BY <2>3, <2>5, <2>6
    <1>7. CASE UsersWritten(r)
      <2>1. r.flag = "save" /\ r.call \in UsersModals /\ r.arg \in Targets
        BY <1>1, <1>7 DEF UsersWritten, Wrote, Answered, UsersCall
      <2>2. CASE Sends({r}, {}) /\ (\/ view' = [view EXCEPT !.busy = {}]
                                    \/ view' = [view EXCEPT !.busy = {}, !.modal = None])
        <3>1. view' \in UsersViews /\ view'.busy = {}
          BY <1>1, <2>2 DEF UsersViews
        <3> QED BY <1>3, <1>4, <2>1, <2>2, <3>1
      <2>3. ASSUME NEW i \in IF r.call = "create" THEN Items ELSE {r.arg},
                   view' \in UsersSettled([view EXCEPT !.loading = TRUE,
                                !.rows = IF r.call = "create" THEN @ \cup {i} ELSE @]),
                   Sends({r}, {[Reread(r) EXCEPT !.arg = i]})
            PROVE  UsersInv'
        <3> DEFINE v == [view EXCEPT !.loading = TRUE,
                                     !.rows = IF r.call = "create" THEN @ \cup {i} ELSE @]
                   q == [Reread(r) EXCEPT !.arg = i]
        <3>1. v \in UsersViews /\ v.busy = view.busy
          <4>1. PICK rows \in SUBSET Items : v = [view EXCEPT !.loading = TRUE, !.rows = rows]
            <5>1. CASE r.call = "create"
              <6>1. v = [view EXCEPT !.loading = TRUE, !.rows = view.rows \cup {i}]
                BY <5>1
              <6>2. view.rows \cup {i} \in SUBSET Items
                BY <1>1, <2>3, <5>1 DEF UsersViews
              <6> QED BY <6>1, <6>2
            <5>2. CASE r.call # "create"
              <6>1. v = [view EXCEPT !.loading = TRUE, !.rows = view.rows]
                BY <5>2
              <6>2. view.rows \in SUBSET Items
                BY <1>1 DEF UsersViews
              <6> QED BY <6>1, <6>2
            <5> QED BY <5>1, <5>2
          <4> HIDE DEF v
          <4> QED BY <1>1, <4>1 DEF UsersViews
        <3>2. view' \in UsersSettled(v) /\ Sends({r}, {q})
          BY <2>3
        <3> HIDE DEF v
        <3>3. view' \in UsersViews /\ view'.busy = view.busy
          BY <3>1, <3>2, UsersSettledTyped
        <3>4. i \in Targets /\ i \in UsersSubjects
          BY <2>1, <2>3, UsersSubject
        <3>5. /\ Reread(r) \in Requests(UsersSubjects, UsersCalls, UsersFlags)
              /\ Asks(Reread(r), "read", r.call, r.arg, r.at, r.flag)
          BY <1>1, AskedAgain
        <3>6. /\ q \in Requests(UsersSubjects, UsersCalls, UsersFlags)
              /\ Asks(q, "read", r.call, i, r.at, r.flag)
          BY <3>4, <3>5 DEF Requests, Asks
        <3> HIDE DEF q
        <3>7. q \in UsersRequests /\ q.kind = "read" /\ q.flag = r.flag
          BY <1>1, <2>1, <3>4, <3>6, UsersSubject DEF UsersRequests, UsersCall, Asks
        <3>8. /\ view'.busy \subseteq view.busy \cup {q.flag}
              /\ r.flag \in view'.busy => r.flag = q.flag
              /\ q.flag \in {"save"}
                   => q.flag = r.flag /\ (q.flag \in view.busy => q.flag \in view'.busy)
          BY <3>3, <3>7
        <3>9. \A f \in {"save"} : f \in view.busy /\ f # r.flag => f \in view'.busy
          BY <3>3
        <3>10. Frame(UsersRequests, {"save"})' /\ Covered'
          BY <1>1, <1>2, <3>2, <3>7, <3>8, <3>9, FrameReread
        <3> QED BY <3>3, <3>10 DEF UsersInv
      <2> QED BY <1>7, <2>2, <2>3 DEF UsersWritten
    <1> QED BY <1>5, <1>6, <1>7

LEMMA UsersStep ==
    ASSUME UsersInv, UsersNext
    PROVE  UsersInv'
    BY UsersUserKeeps, UsersAnswersKeep DEF UsersNext

LEMMA UsersServed ==
    ASSUME UsersInv, NEW groups, Network(groups)
    PROVE  UsersInv' /\ UNCHANGED <<view, inputs>>
    <1>1. /\ UsersRequests \in SUBSET Requests(UsersSubjects, UsersCalls, UsersFlags)
          /\ Unanswered(UsersRequests)
      BY DEF UsersRequests, Unanswered, UsersCall, Requests
    <1>2. /\ Frame(UsersRequests, {"save"})' /\ Covered' /\ UNCHANGED <<view, inputs>>
      BY <1>1, FrameServed DEF UsersInv
    <1> QED BY <1>2 DEF UsersInv

LEMMA UsersStutters ==
    ASSUME UsersInv, UNCHANGED screen
    PROVE  UsersInv'
    <1>1. Frame(UsersRequests, {"save"})' /\ Covered' /\ UNCHANGED view
      BY FrameStutters DEF UsersInv, screen
    <1> QED BY <1>1 DEF UsersInv

-----------------------------------------------------------------------------
(* Any page *)
HotelInv == OpsInv \/ RoomsInv \/ PlanInv \/ BookingInv \/ StayInv \/ DayUseInv
            \/ PaymentInv \/ ListInv \/ BoardInv \/ SmartInv \/ SlotInv
PlatformInv == SubsInv \/ SettingsInv \/ RootInv \/ AccountInv \/ IamInv
               \/ UsersInv
\* The page shown keeps to its invariant.
PagesInv == HotelInv \/ PlatformInv

\* The invariants are those of different pages.
LEMMA PagesShow ==
    /\ OpsInv => view.page = "operations"
    /\ RoomsInv => view.page = "rooms"
    /\ PlanInv => view.page = "planning"
    /\ BookingInv => view.page = "booking"
    /\ StayInv => view.page = "stay"
    /\ DayUseInv => view.page = "day_use"
    /\ PaymentInv => view.page = "payment"
    /\ ListInv => view.page \in ListPages
    /\ BoardInv => view.page = "board"
    /\ SmartInv => view.page = "smart"
    /\ SlotInv => view.page = "day_uses"
    /\ SubsInv => view.page = "subscriptions"
    /\ SettingsInv => view.page = "settings"
    /\ RootInv => view.page \in RootPageNames
    /\ AccountInv => view.page = "account"
    /\ IamInv => view.page = "iam"
    /\ UsersInv => view.page = "users"
    <1>1. OpsInv => view.page = "operations"
      BY DEF OpsInv, OpsKept, OpsViews
    <1>2. RoomsInv => view.page = "rooms"
      BY DEF RoomsInv, RoomsKept, RoomsViews
    <1>3. PlanInv => view.page = "planning"
      BY DEF PlanInv, PlanViews
    <1>4. BookingInv => view.page = "booking"
      BY DEF BookingInv, BookingViews
    <1>5. StayInv => view.page = "stay"
      BY DEF StayInv, StayViews
    <1>6. DayUseInv => view.page = "day_use"
      BY DEF DayUseInv, DayUseViews
    <1>7. PaymentInv => view.page = "payment"
      BY DEF PaymentInv, PaymentViews
    <1>8. ListInv => view.page \in ListPages
      BY DEF ListInv, ListViews
    <1>9. BoardInv => view.page = "board"
      BY DEF BoardInv, BoardViews
    <1>10. SmartInv => view.page = "smart"
      BY DEF SmartInv, SmartViews
    <1>11. SlotInv => view.page = "day_uses"
      BY DEF SlotInv, SlotViews
    <1>12. SubsInv => view.page = "subscriptions"
      BY DEF SubsInv, SubsViews
    <1>13. SettingsInv => view.page = "settings"
      BY DEF SettingsInv, SettingsViews
    <1>14. RootInv => view.page \in RootPageNames
      BY DEF RootInv, RootViews
    <1>15. AccountInv => view.page = "account"
      BY DEF AccountInv, AccountViews
    <1>16. IamInv => view.page = "iam"
      BY DEF IamInv, IamViews
    <1>17. UsersInv => view.page = "users"
      BY DEF UsersInv, UsersViews
    <1> QED BY <1>1, <1>2, <1>3, <1>4, <1>5, <1>6, <1>7, <1>8, <1>9, <1>10, <1>11,
               <1>12, <1>13, <1>14, <1>15, <1>16, <1>17

\* So the page shown says which of them holds.
LEMMA PageShown ==
    ASSUME PagesInv
    PROVE  /\ view.page = "operations" => OpsInv
           /\ view.page = "rooms" => RoomsInv
           /\ view.page = "planning" => PlanInv
           /\ view.page = "booking" => BookingInv
           /\ view.page = "stay" => StayInv
           /\ view.page = "day_use" => DayUseInv
           /\ view.page = "payment" => PaymentInv
           /\ view.page \in ListPages => ListInv
           /\ view.page = "board" => BoardInv
           /\ view.page = "smart" => SmartInv
           /\ view.page = "day_uses" => SlotInv
           /\ view.page = "subscriptions" => SubsInv
           /\ view.page = "settings" => SettingsInv
           /\ view.page \in RootPageNames => RootInv
           /\ view.page = "account" => AccountInv
           /\ view.page = "iam" => IamInv
           /\ view.page = "users" => UsersInv
    <1> USE DEF ListPages, RootPageNames
    <1>1. view.page = "operations" => OpsInv
      BY PagesShow DEF PagesInv, HotelInv, PlatformInv
    <1>2. view.page = "rooms" => RoomsInv
      BY PagesShow DEF PagesInv, HotelInv, PlatformInv
    <1>3. view.page = "planning" => PlanInv
      BY PagesShow DEF PagesInv, HotelInv, PlatformInv
    <1>4. view.page = "booking" => BookingInv
      BY PagesShow DEF PagesInv, HotelInv, PlatformInv
    <1>5. view.page = "stay" => StayInv
      BY PagesShow DEF PagesInv, HotelInv, PlatformInv
    <1>6. view.page = "day_use" => DayUseInv
      BY PagesShow DEF PagesInv, HotelInv, PlatformInv
    <1>7. view.page = "payment" => PaymentInv
      BY PagesShow DEF PagesInv, HotelInv, PlatformInv
    <1>8. view.page \in ListPages => ListInv
      BY PagesShow DEF PagesInv, HotelInv, PlatformInv
    <1>9. view.page = "board" => BoardInv
      BY PagesShow DEF PagesInv, HotelInv, PlatformInv
    <1>10. view.page = "smart" => SmartInv
      BY PagesShow DEF PagesInv, HotelInv, PlatformInv
    <1>11. view.page = "day_uses" => SlotInv
      BY PagesShow DEF PagesInv, HotelInv, PlatformInv
    <1>12. view.page = "subscriptions" => SubsInv
      BY PagesShow DEF PagesInv, HotelInv, PlatformInv
    <1>13. view.page = "settings" => SettingsInv
      BY PagesShow DEF PagesInv, HotelInv, PlatformInv
    <1>14. view.page \in RootPageNames => RootInv
      BY PagesShow DEF PagesInv, HotelInv, PlatformInv
    <1>15. view.page = "account" => AccountInv
      BY PagesShow DEF PagesInv, HotelInv, PlatformInv
    <1>16. view.page = "iam" => IamInv
      BY PagesShow DEF PagesInv, HotelInv, PlatformInv
    <1>17. view.page = "users" => UsersInv
      BY PagesShow DEF PagesInv, HotelInv, PlatformInv
    <1> QED BY <1>1, <1>2, <1>3, <1>4, <1>5, <1>6, <1>7, <1>8, <1>9, <1>10, <1>11,
               <1>12, <1>13, <1>14, <1>15, <1>16, <1>17

LEMMA PagesStart ==
    ASSUME Init
    PROVE  PagesInv
    <1>1. HotelInit => HotelInv
      BY OpsStart, RoomsStart, PlanStart, BookingStart, StayStart, DayUseStart,
         PaymentStart, ListStart, BoardStart, SmartStart, SlotStart
         DEF HotelInit, HotelInv
    <1>2. PlatformInit => PlatformInv
      BY SubsStart, SettingsStart, RootStart, AccountStart, IamStart, UsersStart
         DEF PlatformInit, PlatformInv
    <1> QED BY <1>1, <1>2 DEF Init, PagesInv

LEMMA PagesServed ==
    ASSUME PagesInv, NEW groups, Network(groups)
    PROVE  PagesInv' /\ UNCHANGED <<view, inputs>>
    <1>1. ASSUME HotelInv
          PROVE  HotelInv' /\ UNCHANGED <<view, inputs>>
      <2>1. CASE OpsInv
        BY <2>1, OpsServed DEF HotelInv
      <2>2. CASE RoomsInv
        BY <2>2, RoomsServed DEF HotelInv
      <2>3. CASE PlanInv
        BY <2>3, PlanServed DEF HotelInv
      <2>4. CASE BookingInv
        BY <2>4, BookingServed DEF HotelInv
      <2>5. CASE StayInv
        BY <2>5, StayServed DEF HotelInv
      <2>6. CASE DayUseInv
        BY <2>6, DayUseServed DEF HotelInv
      <2>7. CASE PaymentInv
        BY <2>7, PaymentServed DEF HotelInv
      <2>8. CASE ListInv
        BY <2>8, ListServed DEF HotelInv
      <2>9. CASE BoardInv
        BY <2>9, BoardServed DEF HotelInv
      <2>10. CASE SmartInv
        BY <2>10, SmartServed DEF HotelInv
      <2>11. CASE SlotInv
        BY <2>11, SlotServed DEF HotelInv
      <2> QED BY <1>1, <2>1, <2>2, <2>3, <2>4, <2>5, <2>6, <2>7, <2>8, <2>9, <2>10,
                 <2>11 DEF HotelInv
    <1>2. ASSUME PlatformInv
          PROVE  PlatformInv' /\ UNCHANGED <<view, inputs>>
      <2>1. CASE SubsInv
        BY <2>1, SubsServed DEF PlatformInv
      <2>2. CASE SettingsInv
        BY <2>2, SettingsServed DEF PlatformInv
      <2>3. CASE RootInv
        BY <2>3, RootServed DEF PlatformInv
      <2>4. CASE AccountInv
        BY <2>4, AccountServed DEF PlatformInv
      <2>5. CASE IamInv
        BY <2>5, IamServed DEF PlatformInv
      <2>6. CASE UsersInv
        BY <2>6, UsersServed DEF PlatformInv
      <2> QED BY <1>2, <2>1, <2>2, <2>3, <2>4, <2>5, <2>6 DEF PlatformInv
    <1> QED BY <1>1, <1>2 DEF PagesInv

LEMMA HotelStep ==
    ASSUME PagesInv, HotelNext
    PROVE  HotelInv'
    <1>1. ASSUME OpsNext
          PROVE  OpsInv'
      <2>1. OpsInv
        BY <1>1, PageShown DEF OpsNext
      <2> QED BY <2>1, <1>1, OpsStep
    <1>2. ASSUME RoomsNext
          PROVE  RoomsInv'
      <2>1. RoomsInv
        BY <1>2, PageShown DEF RoomsNext
      <2> QED BY <2>1, <1>2, RoomsStep
    <1>3. ASSUME PlanNext
          PROVE  PlanInv'
      <2>1. PlanInv
        BY <1>3, PageShown DEF PlanNext
      <2> QED BY <2>1, <1>3, PlanStep
    <1>4. ASSUME BookingNext
          PROVE  BookingInv'
      <2>1. BookingInv
        BY <1>4, PageShown DEF BookingNext
      <2> QED BY <2>1, <1>4, BookingStep
    <1>5. ASSUME StayNext
          PROVE  StayInv'
      <2>1. StayInv
        BY <1>5, PageShown DEF StayNext
      <2> QED BY <2>1, <1>5, StayStep
    <1>6. ASSUME DayUseNext
          PROVE  DayUseInv'
      <2>1. DayUseInv
        BY <1>6, PageShown DEF DayUseNext
      <2> QED BY <2>1, <1>6, DayUseStep
    <1>7. ASSUME PaymentNext
          PROVE  PaymentInv'
      <2>1. PaymentInv
        BY <1>7, PageShown DEF PaymentNext
      <2> QED BY <2>1, <1>7, PaymentStep
    <1>8. ASSUME ListNext
          PROVE  ListInv'
      <2>1. ListInv
        BY <1>8, PageShown DEF ListNext
      <2> QED BY <2>1, <1>8, ListStep
    <1>9. ASSUME BoardNext
          PROVE  BoardInv'
      <2>1. BoardInv
        BY <1>9, PageShown DEF BoardNext
      <2> QED BY <2>1, <1>9, BoardStep
    <1>10. ASSUME SmartNext
          PROVE  SmartInv'
      <2>1. SmartInv
        BY <1>10, PageShown DEF SmartNext
      <2> QED BY <2>1, <1>10, SmartStep
    <1>11. ASSUME SlotNext
          PROVE  SlotInv'
      <2>1. SlotInv
        BY <1>11, PageShown DEF SlotNext
      <2> QED BY <2>1, <1>11, SlotStep
    <1> QED BY <1>1, <1>2, <1>3, <1>4, <1>5, <1>6, <1>7, <1>8, <1>9, <1>10, <1>11 DEF HotelNext, HotelInv

LEMMA PlatformStep ==
    ASSUME PagesInv, PlatformNext
    PROVE  PlatformInv'
    <1>1. ASSUME SubsNext
          PROVE  SubsInv'
      <2>1. SubsInv
        BY <1>1, PageShown DEF SubsNext
      <2> QED BY <2>1, <1>1, SubsStep
    <1>2. ASSUME SettingsNext
          PROVE  SettingsInv'
      <2>1. SettingsInv
        BY <1>2, PageShown DEF SettingsNext
      <2> QED BY <2>1, <1>2, SettingsStep
    <1>3. ASSUME RootNext
          PROVE  RootInv'
      <2>1. RootInv
        BY <1>3, PageShown DEF RootNext
      <2> QED BY <2>1, <1>3, RootStep
    <1>4. ASSUME AccountNext
          PROVE  AccountInv'
      <2>1. AccountInv
        BY <1>4, PageShown DEF AccountNext
      <2> QED BY <2>1, <1>4, AccountStep
    <1>5. ASSUME IamNext
          PROVE  IamInv'
      <2>1. IamInv
        BY <1>5, PageShown DEF IamNext
      <2> QED BY <2>1, <1>5, IamStep
    <1>6. ASSUME UsersNext
          PROVE  UsersInv'
      <2>1. UsersInv
        BY <1>6, PageShown DEF UsersNext
      <2> QED BY <2>1, <1>6, UsersStep
    <1> QED BY <1>1, <1>2, <1>3, <1>4, <1>5, <1>6 DEF PlatformNext, PlatformInv

LEMMA PagesStutter ==
    ASSUME PagesInv, UNCHANGED screen
    PROVE  PagesInv'
    <1>1. HotelInv => HotelInv'
      BY OpsStutters, RoomsStutters, PlanStutters, BookingStutters, StayStutters,
         DayUseStutters, PaymentStutters, ListStutters, BoardStutters, SmartStutters,
         SlotStutters
         DEF HotelInv
    <1>2. PlatformInv => PlatformInv'
      BY SubsStutters, SettingsStutters, RootStutters, AccountStutters, IamStutters,
         UsersStutters
         DEF PlatformInv
    <1> QED BY <1>1, <1>2 DEF PagesInv

LEMMA PagesStep ==
    ASSUME PagesInv, [Next]_screen
    PROVE  PagesInv'
    <1>1. CASE HotelNext
      BY <1>1, HotelStep DEF PagesInv
    <1>2. CASE PlatformNext
      BY <1>2, PlatformStep DEF PagesInv
    <1>3. CASE Network(Groups)
      <2>1. PICK groups : Network(groups)
        BY <1>3
      <2> QED BY <2>1, PagesServed
    <1>4. CASE UNCHANGED screen
      BY <1>4, PagesStutter
    <1> QED BY <1>1, <1>2, <1>3, <1>4 DEF Next

\* Whatever its user does and whatever is answered, lost or refused, in any order, each of
\* the seventeen pages keeps to its inductive invariant.
THEOREM PagesKept == Spec => []PagesInv
    <1>1. Init => PagesInv
      BY PagesStart
    <1>2. PagesInv /\ [Next]_screen => PagesInv'
      BY PagesStep
    <1> QED BY <1>1, <1>2, PTL DEF Spec

-----------------------------------------------------------------------------
(* What every page keeps to *)

Counted ==
    /\ \A r \in net : r.step \in Steps /\ r.saw \in Versions /\ r.n \in 1..MaxAlike
    /\ db \in Versions /\ inputs \in 0..MaxInputs /\ failures \in 0..MaxFailures

\* When the writes of a page have no other flag than those of its frame.
LEMMA FrameKeeps ==
    ASSUME NEW subjects, NEW calls, NEW flags, NEW E,
           NEW R \in SUBSET Requests(subjects, calls, flags), Frame(R, E),
           \A r \in R : r.kind = "write" => r.flag \in E \cup {""}
    PROVE  Counted /\ NoDoubleWrite
    <1>1. \A r \in net : r \in R /\ r \in Requests(subjects, calls, flags)
      BY DEF Frame
    <1>2. \A r \in net : r.step \in Steps /\ r.saw \in Versions /\ r.n \in 1..MaxAlike
      BY <1>1 DEF Requests
    <1>3. db \in Versions /\ inputs \in 0..MaxInputs /\ failures \in 0..MaxFailures
      BY VersionsInBound DEF Frame
    <1>4. NoDoubleWrite
      BY <1>1 DEF NoDoubleWrite, Frame
    <1> QED BY <1>2, <1>3, <1>4 DEF Counted

LEMMA HotelKeeps ==
    ASSUME HotelInv
    PROVE  Counted /\ NoDoubleWrite
    <1>1. CASE OpsInv
      <2>1. OpsRequests \in SUBSET Requests(OpsSubjects, OpsCalls, OpsFlags)
        BY DEF OpsRequests
      <2>2. \A r \in OpsRequests : r.kind = "write" => r.flag \in OpsWrites \cup {""}
        BY DEF OpsRequests, OpsCall, OpsCalls, OpsFlags, Requests, OpsWrites, OpsTabs
      <2>3. Frame(OpsRequests, OpsWrites)
        BY <1>1 DEF OpsInv, OpsKept
      <2> QED BY <2>1, <2>2, <2>3, FrameKeeps
    <1>2. CASE RoomsInv
      <2>1. RoomsRequests \in SUBSET Requests(RoomsSubjects, RoomsCalls, RoomsFlags)
        BY DEF RoomsRequests
      <2>2. \A r \in RoomsRequests : r.kind = "write" => r.flag \in RoomsLocks \cup {""}
        BY DEF RoomsRequests, RoomsCall, RoomsCalls, RoomsFlags, Requests, RoomsFlagged, RoomsWrites, RoomsLocks, RoomsForms
      <2>3. Frame(RoomsRequests, RoomsLocks)
        BY <1>2 DEF RoomsInv, RoomsKept
      <2> QED BY <2>1, <2>2, <2>3, FrameKeeps
    <1>3. CASE PlanInv
      <2>1. PlanRequests \in SUBSET Requests(PlanSubjects, PlanCalls, PlanFlags)
        BY DEF PlanRequests
      <2>2. \A r \in PlanRequests : r.kind = "write" => r.flag \in {"booking"} \cup {""}
        BY DEF PlanRequests, PlanCall, PlanCalls, PlanFlags, Requests, PlanWrites
      <2>3. Frame(PlanRequests, {"booking"})
        BY <1>3 DEF PlanInv
      <2> QED BY <2>1, <2>2, <2>3, FrameKeeps
    <1>4. CASE BookingInv
      <2>1. BookingRequests \in SUBSET Requests(Targets, BookingCalls, BookingFlags)
        BY DEF BookingRequests
      <2>2. \A r \in BookingRequests : r.kind = "write" => r.flag \in {"submit"} \cup {""}
        BY DEF BookingRequests, BookingCall, BookingCalls, BookingFlags, Requests, BookingActions
      <2>3. Frame(BookingRequests, {"submit"})
        BY <1>4 DEF BookingInv
      <2> QED BY <2>1, <2>2, <2>3, FrameKeeps
    <1>5. CASE StayInv
      <2>1. StayRequests \in SUBSET Requests(Targets, StayCalls, StayFlags)
        BY DEF StayRequests
      <2>2. \A r \in StayRequests : r.kind = "write" => r.flag \in {"submit"} \cup {""}
        BY DEF StayRequests, StayCall, StayCalls, StayFlags, Requests, StayActions
      <2>3. Frame(StayRequests, {"submit"})
        BY <1>5 DEF StayInv
      <2> QED BY <2>1, <2>2, <2>3, FrameKeeps
    <1>6. CASE DayUseInv
      <2>1. DayUseRequests \in SUBSET Requests(Targets, DayUseCalls, DayUseFlags)
        BY DEF DayUseRequests
      <2>2. \A r \in DayUseRequests : r.kind = "write" => r.flag \in {"form", "pay"} \cup {""}
        BY DEF DayUseRequests, DayUseCall, DayUseCalls, DayUseFlags, Requests, DayUseActions
      <2>3. Frame(DayUseRequests, {"form", "pay"})
        BY <1>6 DEF DayUseInv
      <2> QED BY <2>1, <2>2, <2>3, FrameKeeps
    <1>7. CASE PaymentInv
      <2>1. PaymentRequests \in SUBSET Requests(Targets, PaymentCalls, PaymentFlags)
        BY DEF PaymentRequests
      <2>2. \A r \in PaymentRequests : r.kind = "write" => r.flag \in {"form"} \cup {""}
        BY DEF PaymentRequests, PaymentCall, PaymentCalls, PaymentFlags, Requests
      <2>3. Frame(PaymentRequests, {"form"})
        BY <1>7 DEF PaymentInv
      <2> QED BY <2>1, <2>2, <2>3, FrameKeeps
    <1>8. CASE ListInv
      <2>1. ListRequests \in SUBSET Requests(ListSubjects, ListCalls, ListFlags)
        BY DEF ListRequests
      <2>2. \A r \in ListRequests : r.kind = "write" => r.flag \in {} \cup {""}
        BY DEF ListRequests, ListCall, ListCalls, ListFlags, Requests
      <2>3. Frame(ListRequests, {})
        BY <1>8 DEF ListInv
      <2> QED BY <2>1, <2>2, <2>3, FrameKeeps
    <1>9. CASE BoardInv
      <2>1. BoardRequests \in SUBSET Requests(BoardSubjects, BoardCalls, BoardFlags)
        BY DEF BoardRequests
      <2>2. \A r \in BoardRequests : r.kind = "write" => r.flag \in {} \cup {""}
        BY DEF BoardRequests, BoardCall, BoardCalls, BoardFlags, Requests
      <2>3. Frame(BoardRequests, {})
        BY <1>9 DEF BoardInv
      <2> QED BY <2>1, <2>2, <2>3, FrameKeeps
    <1>10. CASE SmartInv
      <2>1. SmartRequests \in SUBSET Requests(SmartSubjects, SmartCalls, SmartFlags)
        BY DEF SmartRequests
      <2>2. \A r \in SmartRequests : r.kind = "write" => r.flag \in {"page"} \cup {""}
        BY DEF SmartRequests, SmartCall, SmartCalls, SmartFlags, Requests
      <2>3. Frame(SmartRequests, {"page"})
        BY <1>10 DEF SmartInv
      <2> QED BY <2>1, <2>2, <2>3, FrameKeeps
    <1>11. CASE SlotInv
      <2>1. SlotRequests \in SUBSET Requests(SlotSubjects, SlotCalls, SlotFlags)
        BY DEF SlotRequests
      <2>2. \A r \in SlotRequests : r.kind = "write" => r.flag \in {"submit"} \cup {""}
        BY DEF SlotRequests, SlotCall, SlotCalls, SlotFlags, Requests
      <2>3. Frame(SlotRequests, {"submit"})
        BY <1>11 DEF SlotInv
      <2> QED BY <2>1, <2>2, <2>3, FrameKeeps
    <1> QED BY <1>1, <1>2, <1>3, <1>4, <1>5, <1>6, <1>7, <1>8, <1>9, <1>10, <1>11 DEF HotelInv

LEMMA PlatformKeeps ==
    ASSUME PlatformInv
    PROVE  Counted /\ NoDoubleWrite
    <1>1. CASE SubsInv
      <2>1. SubsRequests \in SUBSET Requests(SubsSubjects, SubsCalls, SubsFlags)
        BY DEF SubsRequests
      <2>2. \A r \in SubsRequests : r.kind = "write" => r.flag \in SubsWrites \cup {""}
        BY DEF SubsRequests, SubsCall, SubsCalls, SubsFlags, Requests, SubsWrites, SubsForms
      <2>3. Frame(SubsRequests, SubsWrites)
        BY <1>1 DEF SubsInv
      <2> QED BY <2>1, <2>2, <2>3, FrameKeeps
    <1>2. CASE SettingsInv
      <2>1. SettingsRequests \in SUBSET Requests(SettingsSubjects, SettingsCalls, SettingsFlags)
        BY DEF SettingsRequests
      <2>2. \A r \in SettingsRequests : r.kind = "write" => r.flag \in {"save"} \cup {""}
        BY DEF SettingsRequests, SettingsCall, SettingsCalls, SettingsFlags, Requests
      <2>3. Frame(SettingsRequests, {"save"})
        BY <1>2 DEF SettingsInv
      <2> QED BY <2>1, <2>2, <2>3, FrameKeeps
    <1>3. CASE RootInv
      <2>1. RootRequests \in SUBSET Requests(RootSubjects, RootCalls, RootFlags)
        BY DEF RootRequests
      <2>2. \A r \in RootRequests : r.kind = "write" => r.flag \in RootForms \cup {""}
        BY DEF RootRequests, RootCall, RootCalls, RootFlags, Requests, RootForms
      <2>3. Frame(RootRequests, RootForms)
        BY <1>3 DEF RootInv
      <2> QED BY <2>1, <2>2, <2>3, FrameKeeps
    <1>4. CASE AccountInv
      <2>1. AccountRequests \in SUBSET Requests(AccountSubjects, AccountCalls, AccountFlags)
        BY DEF AccountRequests
      <2>2. \A r \in AccountRequests : r.kind = "write" => r.flag \in AccountForms \cup {""}
        BY DEF AccountRequests, AccountCall, AccountCalls, AccountFlags, Requests, AccountForms, AccountRevokes, AccountFactors
      <2>3. Frame(AccountRequests, AccountForms)
        BY <1>4 DEF AccountInv
      <2> QED BY <2>1, <2>2, <2>3, FrameKeeps
    <1>5. CASE IamInv
      <2>1. IamRequests \in SUBSET Requests(IamSubjects, IamCalls, IamFlags)
        BY DEF IamRequests
      <2>2. \A r \in IamRequests : r.kind = "write" => r.flag \in IamForms \cup {""}
        BY DEF IamRequests, IamCall, IamCalls, IamFlags, Requests, IamForms
      <2>3. Frame(IamRequests, IamForms)
        BY <1>5 DEF IamInv
      <2> QED BY <2>1, <2>2, <2>3, FrameKeeps
    <1>6. CASE UsersInv
      <2>1. UsersRequests \in SUBSET Requests(UsersSubjects, UsersCalls, UsersFlags)
        BY DEF UsersRequests
      <2>2. \A r \in UsersRequests : r.kind = "write" => r.flag \in {"save"} \cup {""}
        BY DEF UsersRequests, UsersCall, UsersCalls, UsersFlags, Requests, UsersModals
      <2>3. Frame(UsersRequests, {"save"})
        BY <1>6 DEF UsersInv
      <2> QED BY <2>1, <2>2, <2>3, FrameKeeps
    <1> QED BY <1>1, <1>2, <1>3, <1>4, <1>5, <1>6 DEF PlatformInv

\* Every page keeps to its fields, its versions and its bounds, and so do its requests.
THEOREM PagesTyped == Spec => []TypeOK
    <1>1. PagesInv => TypeOK
      <2>1. HotelInv /\ Counted => TypeOK
        BY DEF HotelInv, OpsInv, RoomsInv, PlanInv, BookingInv, StayInv, DayUseInv, PaymentInv,
               ListInv, BoardInv, SmartInv, SlotInv, OpsKept, RoomsKept, Counted,
               TypeOK
      <2>2. PlatformInv /\ Counted => TypeOK
        BY DEF PlatformInv, SubsInv, SettingsInv, RootInv, AccountInv, IamInv, UsersInv, Counted,
               TypeOK
      <2>3. PagesInv => Counted
        BY HotelKeeps, PlatformKeeps DEF PagesInv
      <2> QED BY <2>1, <2>2, <2>3 DEF PagesInv
    <1> QED BY <1>1, PagesKept, PTL

\* A form has at most one write in flight on any page: the flag that disables its button
\* is up from the click to the last answer the handler awaits, whatever the page sends,
\* receives or gives up meanwhile.
THEOREM FormsSentOnce == Spec => []NoDoubleWrite
    <1>1. PagesInv => NoDoubleWrite
      BY HotelKeeps, PlatformKeeps DEF PagesInv
    <1> QED BY <1>1, PagesKept, PTL

LEMMA HotelBusy ==
    ASSUME HotelInv
    PROVE  BusyHasRequest
    <1>1. CASE ListInv
      <2>1. ~Denied(view) => Covered
        BY <1>1, PagesShow DEF ListInv, Denied, ListReadable, ListPages
      <2> QED BY <2>1 DEF Covered, BusyHasRequest
    <1>2. CASE ~ListInv
      <2>1. Covered
        BY <1>2 DEF HotelInv, OpsInv, RoomsInv, PlanInv, BookingInv, StayInv, DayUseInv,
                    PaymentInv, BoardInv, SmartInv, SlotInv
      <2> QED BY <2>1 DEF Covered, BusyHasRequest
    <1> QED BY <1>1, <1>2

\* What a page shows as loading, sending or disabled ends: whatever failed, was refused or
\* was given up, the request that lowers the flag is in flight (but for the spinner of a
\* due whose attachment was removed, and the pages a denied user does not see).
THEOREM NothingWaitsForever == Spec => []BusyHasRequest
    <1>1. PlatformInv => BusyHasRequest
      BY DEF PlatformInv, SubsInv, SettingsInv, RootInv, AccountInv, IamInv, UsersInv,
             Covered, BusyHasRequest
    <1>2. PagesInv => BusyHasRequest
      BY <1>1, HotelBusy DEF PagesInv
    <1> QED BY <1>2, PagesKept, PTL

\* The row whose button is disabled is the one its own request is about: no answer to
\* another row enables it, and none leaves it disabled.
THEOREM RowsHaveRequests == Spec => []GuardHasRequest
    <1>1. ASSUME PagesInv, NEW i \in Guards(view) \ {None}
          PROVE  \E r \in net : r.arg = i
      <2>1. CASE view.page \in ListPages
        <3>1. i = view.acting
          BY <1>1, <2>1 DEF Guards, ListPages, RootPageNames
        <3>2. ListActing
          BY <1>1, <2>1, PageShown DEF ListInv
        <3> QED BY <3>1, <3>2, <1>1 DEF ListActing
      <2>2. CASE view.page \in RootPageNames
        <3>1. RootHeld /\ i = view.row
          BY <1>1, <2>2, PageShown DEF RootInv, Guards, ListPages, RootPageNames
        <3> QED BY <3>1, <1>1 DEF RootHeld
      <2>3. CASE view.page = "account"
        <3>1. AccountHeld /\ i = view.row
          BY <1>1, <2>3, PageShown DEF AccountInv, Guards, ListPages
        <3> QED BY <3>1, <1>1 DEF AccountHeld
      <2> QED BY <1>1, <2>1, <2>2, <2>3 DEF Guards
    <1>2. PagesInv => GuardHasRequest
      BY <1>1 DEF GuardHasRequest
    <1> QED BY <1>2, PagesKept, PTL

\* The invoice a payment is for is that of the flow attached to it, however the flows are
\* attached, replaced and removed while their dues are read.
THEOREM InvoiceFollowsSelection == Spec => []InvoiceOfSelection
    <1>1. PagesInv => InvoiceOfSelection
      BY PageShown DEF OpsInv, OpsKept, InvoiceOfSelection
    <1> QED BY <1>1, PagesKept, PTL

\* Once nothing is in flight and nothing has failed, a list of payments is that of the
\* search shown above it: the answers to older searches have been dropped.
THEOREM ListFollowsQuery == Spec => []ListOfQuery
    <1>1. PagesInv => ListOfQuery
      <2>1. "payments" \in ListPages
        BY DEF ListPages
      <2>2. PagesInv /\ view.page = "payments" => ListPaid
        BY <2>1, PageShown DEF ListInv
      <2> QED BY <2>2 DEF ListPaid, ListOfQuery
    <1> QED BY <1>1, PagesKept, PTL

-----------------------------------------------------------------------------
(* What was typed *)

DraftEnds(f) == \E r \in net \ net' : r.flag = f /\ r.step \in {"served", "partly"}

LEMMA DraftsOfOperations ==
    ASSUME PagesInv, OpsNext, inputs' = inputs, NEW f \in Typed(view) \ Typed(view')
    PROVE  DraftEnds(f)
    <1>1. view.page = "operations"
      BY DEF OpsNext
    <1>2. OpsInv
      BY <1>1, PageShown
    <1>3. view'.page = "operations"
      <2>1. OpsInv'
        BY <1>2, OpsStep
      <2> QED BY <2>1 DEF OpsInv, OpsKept, OpsViews
    <1>4. f \in OpsTabs /\ view.forms[f] # "blank" /\ view'.forms[f] = "blank"
      BY <1>1, <1>3 DEF Typed
    <1> QED BY <1>2, <1>4, OpsDrafts DEF DraftEnds

LEMMA DraftsOfAccount ==
    ASSUME PagesInv, AccountNext, inputs' = inputs, NEW f \in Typed(view) \ Typed(view')
    PROVE  DraftEnds(f)
    <1>1. view.page = "account"
      BY DEF AccountNext
    <1>2. AccountInv
      BY <1>1, PageShown
    <1>3. view'.page = "account"
      <2>1. AccountInv'
        BY <1>2, AccountStep
      <2> QED BY <2>1 DEF AccountInv, AccountViews
    <1>4. /\ f = "password" /\ view.password # "blank" /\ ~view.leaving
          /\ ~(view'.password # "blank" /\ ~view'.leaving)
      BY <1>1, <1>3 DEF Typed
    <1> QED BY <1>2, <1>4, AccountDrafts DEF DraftEnds

LEMMA DraftsOfIam ==
    ASSUME PagesInv, IamNext, inputs' = inputs, NEW f \in Typed(view) \ Typed(view')
    PROVE  DraftEnds(f)
    <1>1. view.page = "iam"
      BY DEF IamNext
    <1>2. IamInv
      BY <1>1, PageShown
    <1>3. view'.page = "iam"
      <2>1. IamInv'
        BY <1>2, IamStep
      <2> QED BY <2>1 DEF IamInv, IamViews
    <1>4. f = "role" /\ view.form # "blank" /\ ~(view'.form # "blank")
      BY <1>1, <1>3 DEF Typed
    <1> QED BY <1>2, <1>4, IamDrafts

\* What was typed in a form of the desk, of an account or of the roles is emptied by its
\* user, or with the end of a request of that very form that was made: never by a failure
\* nor by the answer to another one.
THEOREM DraftsAreKept == Spec => DraftsKept
    <1>1. ASSUME PagesInv, [Next]_screen, inputs' = inputs,
                 NEW f \in Typed(view) \ Typed(view')
          PROVE  DraftEnds(f)
      <2>1. view' # view
        BY <1>1
      <2>2. HotelNext \/ PlatformNext
        <3>1. ~UNCHANGED screen
          BY <2>1 DEF screen
        <3>2. ~Network(Groups)
          BY <1>1, <2>1, PagesServed
        <3> QED BY <1>1, <3>1, <3>2 DEF Next
      <2>3. view.page \in {"operations", "account", "iam"}
        BY <1>1 DEF Typed
      <2>4. OpsNext \/ AccountNext \/ IamNext
        BY <2>2, <2>3 DEF HotelNext, PlatformNext, RoomsNext, PlanNext, BookingNext, StayNext, DayUseNext, PaymentNext,
             ListNext, BoardNext, SmartNext, SlotNext, SubsNext, SettingsNext,
             RootNext, UsersNext,
             ListPages, RootPageNames
      <2> QED BY <1>1, <2>4, DraftsOfOperations, DraftsOfAccount, DraftsOfIam
    <1>2. PagesInv /\ [Next]_screen =>
            [inputs' = inputs =>
               \A f \in Typed(view) \ Typed(view') :
                  \E r \in net \ net' : r.flag = f /\ r.step \in {"served", "partly"}]_screen
      BY <1>1 DEF DraftEnds
    <1> QED BY <1>2, PagesKept, PTL DEF Spec, DraftsKept
=============================================================================
