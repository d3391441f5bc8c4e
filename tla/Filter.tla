------------------------------- MODULE Filter -------------------------------
(***************************************************************************)
(* The filter that decides which branches are worth solving                *)
(* (fuzzer/cpp_core/filter.cc, called by the solver of each job).  A       *)
(* session, one per tracked input, counts the edges that it passes; the    *)
(* trace map and the context map are shared by the sessions of all jobs    *)
(* and are not protected: a read and the write that follows are two steps, *)
(* and what others wrote in between is lost.                               *)
(*                                                                         *)
(* Hashes do not collide here, and pairs do not share a byte of the        *)
(* context map: a location is a branch and its direction, an index of the  *)
(* trace map is the pair of the previous and the present location.         *)
(* Counters have Width bits, 8 in the code.                                *)
(***************************************************************************)
EXTENDS Integers

CONSTANTS
  Solvers,     \* solver threads, one per job, each with one session at a time
  Pcs,         \* addresses of branches
  Width,       \* bits of a counter
  MaxBranches  \* bound: branches of a session

ASSUME WidthAssumption == Width \in Nat \ {0} /\ 2^Width \in Nat \ {0} /\ MaxBranches \in Nat

Locs == Pcs \X BOOLEAN
Start == <<"start">>
Index == (Locs \cup {Start}) \X Locs
BitNos == 0 .. Width - 1
Bits(n) == {b \in BitNos : (n \div 2^b) % 2 = 1}
Inc(n) == (n + 1) % 2^Width
isPowerofTwoOrZero(n) == n = 0 \/ \E b \in BitNos : n = 2^b

VARIABLES
  trace,    \* trace_map_: the bits of the counts that were tried on each edge
  context,  \* context_map_: pairs of locations
  virgin,   \* virgin_map_ of each session
  visited,  \* visited_ of each session
  call,     \* each session: the call in progress
  tried     \* history: (edge, bit) for which a call returned TRUE

filterVars == <<trace, context, virgin, visited, call, tried>>

Flipped(h) == <<h[1], ~h[2]>>

Off == [at |-> "off", calls |-> 0, prev |-> Start, h |-> Start, fresh |-> {}, old |-> {}]
NoCounts == [i \in Index |-> 0]

(* init_core *)
FilterInit ==
  /\ trace = [i \in Index |-> {}] /\ context = {} /\ tried = {}
  /\ virgin = [j \in Solvers |-> NoCounts]
  /\ visited = [j \in Solvers |-> {}]
  /\ call = [j \in Solvers |-> Off]

idx(j) == <<call[j].prev, call[j].h>>
inv(j) == <<call[j].prev, Flipped(call[j].h)>>
Bump(j, i) == Bits(Inc(virgin[j][i]))

-----------------------------------------------------------------------------
StartSession(j) ==
  /\ call[j].at = "off"
  /\ call' = [call EXCEPT ![j] = [Off EXCEPT !.at = "idle"]]
  /\ virgin' = [virgin EXCEPT ![j] = NoCounts]
  /\ visited' = [visited EXCEPT ![j] = {}]
  /\ UNCHANGED <<trace, context, tried>>

EndSession(j) ==
  /\ call[j].at = "idle"
  /\ call' = [call EXCEPT ![j] = Off]
  /\ virgin' = [virgin EXCEPT ![j] = NoCounts]
  /\ visited' = [visited EXCEPT ![j] = {}]
  /\ UNCHANGED <<trace, context, tried>>

(* qsym_filter, isInterestingBranch: the branch comes after the previous   *)
(* one; isInterestingContext looks for pairs that are not in the map ...   *)
qsym_filter(j, h) ==
  /\ call[j].at = "idle" /\ call[j].calls < MaxBranches
  /\ LET bits == virgin[j][<<call[j].prev, h>>]
         fresh == IF isPowerofTwoOrZero(bits) THEN {<<p, h>> : p \in visited[j]} \ context ELSE {}
     IN  /\ visited' = [visited EXCEPT ![j] = IF bits = 0 THEN @ \cup {h} ELSE @]
         /\ call' = [call EXCEPT ![j] = [call[j] EXCEPT !.at = "context", !.calls = call[j].calls + 1,
                                                     !.h = h, !.fresh = fresh]]
  /\ UNCHANGED <<trace, context, virgin, tried>>

(* ... and sets them; the edge is counted (modulo 2^Width). *)
Context(j) ==
  /\ call[j].at = "context"
  /\ context' = context \cup call[j].fresh
  /\ virgin' = [virgin EXCEPT ![j][idx(j)] = Inc(@)]
  /\ call' = [call EXCEPT ![j].at = "test"]
  /\ UNCHANGED <<trace, visited, tried>>

Finish(j) == [call[j] EXCEPT !.at = "idle", !.prev = call[j].h, !.h = Start, !.fresh = {}, !.old = {}]

(* A call that returns TRUE tries the branch at its count, and the other   *)
(* direction, which the input has covered, at its next count.              *)
Own(j) == {idx(j)} \X Bits(virgin[j][idx(j)])
Tries(j) == Own(j) \cup ({inv(j)} \X Bump(j, inv(j)))
NewContext(j) == call[j].fresh # {}

(* Is a bit of the count new on this edge?  If not, the context decides. *)
Test(j) ==
  /\ call[j].at = "test"
  /\ IF Bits(virgin[j][idx(j)]) \subseteq trace[idx(j)]
       THEN /\ call' = [call EXCEPT ![j] = Finish(j)]
            /\ tried' = IF NewContext(j) THEN tried \cup Own(j) ELSE tried
       ELSE /\ call' = [call EXCEPT ![j].at = "mark", ![j].old = trace[idx(j)]]
            /\ UNCHANGED tried
  /\ UNCHANGED <<trace, context, virgin, visited>>

(* trace_map_[idx] |= virgin_map_[idx], with the value read before or anew *)
BugMarkOnly(j) ==
  /\ call[j].at = "mark"
  /\ trace' = [trace EXCEPT ![idx(j)] = Bits(virgin[j][idx(j)])]
  /\ call' = [call EXCEPT ![j].at = "inverse", ![j].old = {}]
  /\ UNCHANGED <<context, virgin, visited, tried>>

Mark(j) ==
  /\ call[j].at = "mark"
  /\ \E old \in {call[j].old, trace[idx(j)]} :
       trace' = [trace EXCEPT ![idx(j)] = old \cup Bits(virgin[j][idx(j)])]
  /\ call' = [call EXCEPT ![j].at = "inverse", ![j].old = {}]
  /\ UNCHANGED <<context, virgin, visited, tried>>

(* virgin_map_[inv_idx]++, the same for the inverse index, and -- again. *)
ReadInverse(j) ==
  /\ call[j].at = "inverse"
  /\ call' = [call EXCEPT ![j].at = "markinv", ![j].old = trace[inv(j)]]
  /\ UNCHANGED <<trace, context, virgin, visited, tried>>

BugInverseWide(j) ==
  /\ call[j].at = "markinv"
  /\ trace' = [trace EXCEPT ![inv(j)] = BitNos]
  /\ tried' = tried \cup Tries(j)
  /\ call' = [call EXCEPT ![j] = Finish(j)]
  /\ UNCHANGED <<context, virgin, visited>>

MarkInverse(j) ==
  /\ call[j].at = "markinv"
  /\ trace' = [trace EXCEPT ![inv(j)] = call[j].old \cup Bump(j, inv(j))]
  /\ tried' = tried \cup Tries(j)
  /\ call' = [call EXCEPT ![j] = Finish(j)]
  /\ UNCHANGED <<context, virgin, visited>>

Step(j) ==
  \/ StartSession(j) \/ EndSession(j) \/ (\E h \in Locs : qsym_filter(j, h))
  \/ Context(j) \/ Test(j) \/ Mark(j) \/ ReadInverse(j) \/ MarkInverse(j)

FilterNext == \E j \in Solvers : Step(j)

FilterSpec == FilterInit /\ [][FilterNext]_filterVars
FilterFairSpec == FilterSpec /\ \A j \in Solvers : WF_filterVars(Step(j))

-----------------------------------------------------------------------------
CallRec == [at : {"off", "idle", "context", "test", "mark", "inverse", "markinv"}, calls : 0 .. MaxBranches,
            prev : Locs \cup {Start}, h : Locs \cup {Start}, fresh : SUBSET (Locs \X Locs),
            old : SUBSET BitNos]

(* Type correctness; counters stay within their width. *)
FilterTypeOK ==
  /\ trace \in [Index -> SUBSET BitNos] /\ context \subseteq Locs \X Locs
  /\ virgin \in [Solvers -> [Index -> 0 .. 2^Width - 1]]
  /\ visited \in [Solvers -> SUBSET Locs]
  /\ call \in [Solvers -> CallRec]
  /\ tried \subseteq Index \X BitNos

(* What calls in progress, which will return TRUE, have marked already. *)
InProgress == UNION {Tries(j) : j \in {k \in Solvers : call[k].at \in {"mark", "inverse", "markinv"}}}

(* The filter turns a branch down only if it was tried: each bit of its    *)
(* count on this edge was tried by a call that returned TRUE or will, of   *)
(* this session or of another.  Updates that the races lose only cause a   *)
(* second try.                                                             *)
TurnedDown(j) == call[j].at = "test" /\ call'[j].at = "idle" /\ ~NewContext(j)
TurnedDownWasTried ==
  [][\A j \in Solvers : TurnedDown(j) =>
       Own(j) \subseteq tried \cup InProgress]_filterVars

(* The maps settle: however the sessions overwrite each other's bits, they *)
(* do not go on finding the same branches interesting for ever.            *)
MapsSettle == <>[][UNCHANGED <<trace, context>>]_filterVars
=============================================================================
