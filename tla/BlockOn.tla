------------------------------ MODULE BlockOn ------------------------------
(***************************************************************************)
(* task::block_on on one thread: src/task/block_on.rs.                      *)
(*                                                                         *)
(* The future that is blocked on may itself call block_on inside its poll,   *)
(* so the thread has a stack of frames; a parker is what the thread sleeps   *)
(* on and what the wakers of a frame unpark.  A future looks whether it is   *)
(* ready and registers the waker in one step (that is the future's duty),   *)
(* and may then do more work in the same poll.                              *)
(***************************************************************************)
EXTENDS Naturals, Sequences, FiniteSets

CONSTANTS
    Calls,      \* how many futures are blocked on, one call each
    MaxDepth,   \* how deep the calls are nested
    YIELDS      \* polls before the thread parks: 3 in the code

VARIABLES
    cache,      \* CACHE
    frames,     \* the calls of run() under way, innermost last
    made,       \* how many parkers were made
    tokens,     \* the parkers with an unpark() that no park() has used
    arrived,    \* the futures that are ready
    clones,     \* clones[f]: the parkers f holds a waker of
    called      \* the futures block_on() was called with

blockVars == <<cache, frames, made, tokens, arrived, clones, called>>

BlockedFuture == 1..Calls
NoParker == 0

BlockInit ==
    /\ cache = NoParker /\ frames = <<>> /\ made = 0
    /\ tokens = {} /\ arrived = {} /\ called = {}
    /\ clones = [f \in BlockedFuture |-> {}]

Top == frames[Len(frames)]
IsAt(pc_) == frames # <<>> /\ Top.pc = pc_
SetTop(frame) == frames' = [frames EXCEPT ![Len(frames)] = frame]

Frame(f, p) == [future |-> f, parker |-> p, step |-> 0, pc |-> "poll"]

(* Mutant: the parker stays in the cache while it is in use. *)
CallBlockOnShares(f) ==
    /\ f = Cardinality(called) + 1
    /\ frames = <<>> \/ (IsAt("inside") /\ Len(frames) < MaxDepth)
    /\ called' = called \union {f}
    /\ made' = IF cache = NoParker THEN made + 1 ELSE made
    /\ frames' = Append(frames, Frame(f, IF cache = NoParker THEN made' ELSE cache))
    /\ UNCHANGED <<cache, tokens, arrived, clones>>

(* block_on(), from outside or from inside a poll: the cached parker is     *)
(* taken, or one is made.                                                  *)
CallBlockOn(f) ==
    /\ f = Cardinality(called) + 1
    /\ frames = <<>> \/ (IsAt("inside") /\ Len(frames) < MaxDepth)
    /\ called' = called \union {f}
    /\ made' = IF cache = NoParker THEN made + 1 ELSE made
    /\ frames' = Append(frames, Frame(f, IF cache = NoParker THEN made' ELSE cache))
    /\ cache' = NoParker
    /\ UNCHANGED <<tokens, arrived, clones>>

(* The poll finds the future ready, and run() returns to the poll it was     *)
(* called from; or the future keeps a waker.                               *)
PollFrame ==
    /\ IsAt("poll")
    /\ IF Top.future \in arrived
       THEN /\ frames' = SubSeq(frames, 1, Len(frames) - 1)
            /\ cache' = Top.parker
            /\ clones' = clones
       ELSE /\ clones' = [clones EXCEPT ![Top.future] = @ \union {Top.parker}]
            /\ SetTop([Top EXCEPT !.pc = "inside"])
            /\ cache' = cache
    /\ UNCHANGED <<made, tokens, arrived, called>>

(* Poll::Pending: yield a few times, then park.                             *)
YieldOrPark ==
    /\ IsAt("inside")
    /\ SetTop(IF Top.step < YIELDS THEN [Top EXCEPT !.pc = "poll", !.step = @ + 1]
              ELSE [Top EXCEPT !.pc = "park"])
    /\ UNCHANGED <<cache, made, tokens, arrived, clones, called>>

Park ==
    /\ IsAt("park") /\ Top.parker \in tokens
    /\ tokens' = tokens \ {Top.parker}
    /\ SetTop([Top EXCEPT !.pc = "poll", !.step = 0])
    /\ UNCHANGED <<cache, made, arrived, clones, called>>

(* Another thread completes future f, and wakes its wakers (wake_raw).       *)
FutureArrives(f) ==
    /\ f \in called \ arrived
    /\ arrived' = arrived \union {f}
    /\ tokens' = tokens \union clones[f]
    /\ UNCHANGED <<cache, frames, made, clones, called>>

(* A clone of a waker is used again, perhaps when its parker has gone to     *)
(* another call.                                                           *)
WakeLate(f) ==
    /\ tokens' = tokens \union clones[f]
    /\ UNCHANGED <<cache, frames, made, arrived, clones, called>>

BlockStep == PollFrame \/ YieldOrPark \/ Park

BlockNext ==
    \/ BlockStep
    \/ \E f \in BlockedFuture : CallBlockOn(f) \/ FutureArrives(f) \/ WakeLate(f)

(* The thread runs, and every future is ready in the end.                   *)
BlockFairness ==
    /\ WF_blockVars(BlockStep)
    /\ \A f \in BlockedFuture : WF_blockVars(FutureArrives(f))

---------------------------------------------------------------------------
(* block_on() returns once its future is ready, though a call nested in its   *)
(* poll parks the same thread meanwhile: "each recursive call uses a         *)
(* distinct parker instance", so that the inner call never uses up the       *)
(* outer one's wake-up (block_on.rs:86).  (Finitely many calls are made.)    *)
BlockOnReturns == []<>(frames = <<>>)
=============================================================================
