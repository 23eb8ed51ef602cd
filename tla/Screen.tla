------------------------------- MODULE Screen -------------------------------
(***************************************************************************)
(* What every page of the application is made of: the state React keeps    *)
(* for it, its requests in flight, and the rows the server keeps.          *)
(*                                                                         *)
(* The page is the record `view`; each page module says what its fields    *)
(* are and gives the handlers and effects that change it.  A request is    *)
(* sent, the server serves or refuses it, and its answer may be lost;      *)
(* answers arrive in any order.  The rows are their version: the number of *)
(* writes the server made for this page.                                   *)
(***************************************************************************)
EXTENDS Naturals, FiniteSets

CONSTANTS Items,      \* the rows a page may act on
          Words,      \* what may be typed in a search box or a filter
          Profiles,   \* the sets of rights its user may have
          MaxAlike,   \* bound: like requests in flight at once
          MaxWrites,  \* bound: writes a page sends in a behaviour
          MaxInputs,  \* bound: what its user does in a behaviour
          MaxFailures \* bound: requests that fail in a behaviour

ASSUME ScreenAssumption ==
    /\ MaxAlike \in Nat \ {0} /\ MaxWrites \in Nat /\ MaxInputs \in Nat
    /\ MaxFailures \in Nat
    /\ "none" \notin Items /\ "" \notin Words

VARIABLES view,     \* the state of the page
          net,      \* its requests in flight
          db,       \* the version of the server's rows
          inputs,   \* what its user did so far
          failures  \* the requests that failed so far

screen == <<view, net, db, inputs, failures>>
server == <<db, inputs, failures>>

None == "none"
NoWord == ""
Targets == Items \cup {None}
Queries == Words \cup {NoWord}
Versions == 0..MaxWrites
Drafts == {"blank", "partial", "complete"}
Statuses == {"none", "warning", "error"}

\* Something the user does, as long as the bound lasts.
Input == inputs < MaxInputs /\ inputs' = inputs + 1 /\ UNCHANGED <<db, failures>>

Start == db = 0 /\ inputs = 0 /\ failures = 0

-----------------------------------------------------------------------------
(* Requests: what is called, about what, the flag its end lowers, and what the *)
(* closure that awaits it kept of the page.                                    *)

Steps == {"sent", "served", "partly", "failed"}
Requests(subjects, calls, flags) ==
    [kind : {"read", "write"}, call : calls, arg : subjects, at : subjects, flag : flags,
     n : 1..MaxAlike, step : Steps, saw : Versions]

Alike(call) == {r \in net : r.call = call}
Slots(call) == (1..MaxAlike) \ {r.n : r \in Alike(call)}
Unsent(call) == Slots(call) # {}

Request(kind, call, arg, flag, n) ==
    [kind |-> kind, call |-> call, arg |-> arg, at |-> None, flag |-> flag, n |-> n,
     step |-> "sent", saw |-> 0]
Slot(call) == CHOOSE n \in Slots(call) : \A k \in Slots(call) : n <= k
Read(call, arg, flag) == Request("read", call, arg, flag, Slot(call))
Write(call, arg, flag) == Request("write", call, arg, flag, Slot(call))
Keeping(r, x) == [r EXCEPT !.at = x]

\* The requests of a first render.
Mounted(calls, flag) == {Request("read", c, NoWord, flag, 1) : c \in calls}

\* What the handler of an answered write awaits next.
Reread(r) == [r EXCEPT !.kind = "read", !.step = "sent", !.saw = 0]

MayWrite(call) ==
    Unsent(call) /\ db + Cardinality({r \in net : r.kind = "write" /\ r.step = "sent"}) < MaxWrites

\* What a page sends, in place of what was answered or given up.
Sends(gone, sent) == net' = (net \ gone) \cup sent

Answered(r, calls) == r.call \in calls /\ r.step # "sent"
Wrote(r, calls) == Answered(r, calls) /\ r.kind = "write"
Reads(r, calls) == Answered(r, calls) /\ r.kind = "read"

\* A flag that is up has a request whose end lowers it.
HasRequest(flag) == \E r \in net : r.flag = flag

-----------------------------------------------------------------------------
(* The server and the network *)

Settle(r, step, saw) == net' = (net \ {r}) \cup {[r EXCEPT !.step = step, !.saw = saw]}
Fails == failures < MaxFailures /\ failures' = failures + 1

ServeRead(r) ==
    /\ r.step = "sent" /\ r.kind = "read"
    /\ Settle(r, "served", db) /\ UNCHANGED <<view, server>>

ServeWrite(r) ==
    /\ r.step = "sent" /\ r.kind = "write"
    /\ Settle(r, "served", db + 1) /\ db' = db + 1 /\ UNCHANGED <<view, inputs, failures>>

\* A group of reads of which some failed (Promise.allSettled).
ServePartly(r, groups) ==
    /\ r.step = "sent" /\ r.kind = "read" /\ r.call \in groups /\ Fails
    /\ Settle(r, "partly", db) /\ UNCHANGED <<view, db, inputs>>

Refuse(r) ==
    /\ r.step = "sent" /\ Fails
    /\ Settle(r, "failed", 0) /\ UNCHANGED <<view, db, inputs>>

\* The write is made and its answer is lost: to the page it failed.
LoseAnswer(r) ==
    /\ r.step = "sent" /\ r.kind = "write" /\ Fails
    /\ Settle(r, "failed", 0) /\ db' = db + 1 /\ UNCHANGED <<view, inputs>>

Network(groups) ==
    \E r \in net : ServeRead(r) \/ ServeWrite(r) \/ ServePartly(r, groups)
                   \/ Refuse(r) \/ LoseAnswer(r)
=============================================================================
