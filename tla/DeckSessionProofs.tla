------------------------- MODULE DeckSessionProofs -------------------------
(***************************************************************************)
(* What DeckSession guarantees for every number of decks and of loads,     *)
(* stops, removals and failed task creations.                              *)
(*                                                                         *)
(* The argument counts: a task that was started is alive, or its exit      *)
(* signal is in the deck's semaphore, or the caller that ends the session  *)
(* has taken the signal.  So a join that took as many signals as tasks     *)
(* were started has the deck to itself, and everything that frees or       *)
(* rebinds a buffer comes after such a join, under the deck's mutex.  A    *)
(* join that timed out leaves tasks_started as it is, and the next session *)
(* must get past the same count.                                           *)
(*                                                                         *)
(* An aborted load resets tasks_started whatever its join said             *)
(* (audio_engine.c, audio_engine_load_for_deck), which breaks the count    *)
(* when a read outlasts the join.  The invariant therefore holds until a   *)
(* load forgets a task that way; every other join may time out.            *)
(***************************************************************************)
EXTENDS DeckSession, TLAPS

Kinds == {"loader", "decode"}
LoaderPcs == {"start", "open", "openio", "fill", "fillio", "park"}
DecodePcs == {"start", "wait", "work", "workio"}
Task == [d : Decks, k : {"loader"}, sid : Nat, pc : LoaderPcs]
          \cup [d : Decks, k : {"decode"}, sid : Nat, pc : DecodePcs]

StopPcs == {"stop", "join", "free", "out", "outwait"}
LoadPcs == {"begin", "loader", "decode", "output", "ajoin"}
CallPcs == {"idle", "admit", "lock", "unlock", "held", "failed"} \cup StopPcs \cup LoadPcs
Call == [pc : CallPcs, d : Decks,
         want : 0 .. ExpectedTasks, got : 0 .. ExpectedTasks,
         ret : {"none", "load", "stop", "all", "fin"}, rc : {"OK", "TIMEOUT"}]

RtType == rt \in [Decks -> [run : BOOLEAN, started : 0 .. ExpectedTasks, gen : Nat]]
CtxType == ctx \in [Decks -> [gen : Nat, deck : Decks]]
SlotType == slot \in [Decks -> [src : 0 .. nsid, buf : 0 .. nsid, done : BOOLEAN]]
LiveType == live \subseteq Task /\ \A t \in live : t.sid \in 1 .. nsid
OpType == op \in [Callers -> Call]
LockType == lock \in [Decks -> Callers \cup {None}]
FlatType ==
  /\ blocked \in BOOLEAN /\ nsid \in Nat
  /\ loaded \in [Decks -> BOOLEAN]
  /\ sem \in [Decks -> 0 .. SemMax]

Types ==
  FlatType /\ LockType /\ RtType /\ CtxType /\ SlotType /\ LiveType /\ OpType

(* Which caller may be where, and which decks it holds then.               *)
Places ==
  /\ op["worker"].pc \in {"idle", "admit"} \cup StopPcs \cup LoadPcs
  /\ op["worker"].pc = "admit" => ~blocked
  /\ op["worker"].pc # "idle" => op["worker"].ret = "load"
  /\ op["ui"].pc \in {"idle"} \cup StopPcs
  /\ op["ui"].pc # "idle" => op["ui"].ret = "stop"
  /\ op["storage"].pc \in {"idle", "lock", "unlock", "held", "failed"} \cup StopPcs
  /\ op["storage"].pc \in {"lock", "stop", "join", "free"} => op["storage"].ret = "all"
  /\ op["storage"].pc \in {"out", "outwait"} => op["storage"].ret \in {"all", "fin"}
  /\ op["storage"].pc = "unlock" => op["storage"].ret = "fin"
  /\ blocked <=> op["storage"].pc # "idle"

Locks ==
  \A d \in Decks :
    /\ lock[d] = "worker" <=> op["worker"].pc \notin {"idle", "admit"} /\ op["worker"].d = d
    /\ lock[d] = "ui" <=> op["ui"].pc # "idle" /\ op["ui"].d = d
    /\ lock[d] = "storage" <=> \/ op["storage"].pc \in StopPcs \cup {"unlock"}
                               \/ op["storage"].pc = "lock" /\ d < op["storage"].d

Alive(d, k) == \E t \in live : t.d = d /\ t.k = k
Busy(d) == (IF Alive(d, "loader") THEN 1 ELSE 0) + (IF Alive(d, "decode") THEN 1 ELSE 0)
Joining(c, d) == op[c].pc \in {"join", "ajoin"} /\ op[c].d = d

(* Every task that was started is alive, has signalled, or was joined by   *)
(* the caller that is ending the session.  An abort whose wait timed out    *)
(* may leave a signal behind on a deck with nothing to join.                *)
Full(d) == Busy(d) + sem[d] <= rt[d].started
Counted ==
  \A d \in Decks :
    /\ \/ Full(d)
       \/ Busy(d) = 0 /\ rt[d].started = 0 /\ ~rt[d].run
    /\ op["worker"].pc \in {"loader", "decode", "output"} /\ op["worker"].d = d => Full(d)
    /\ \A c \in Callers : Joining(c, d) => Busy(d) + sem[d] + op[c].got <= rt[d].started

(* A deck has at most one loader and one decoder, with their deck's own     *)
(* context, so that they signal the semaphore their session is joined on.   *)
OnePerKind == \A t, u \in live : t.d = u.d /\ t.k = u.k => t = u

Contexts == \A t \in live : ctx[t.d].deck = t.d

Early == {"start", "open", "openio"}
Holding == {"fill", "fillio", "work", "workio"}

(* Before the loader has bound the buffer nobody believes that it has.     *)
NotYet ==
  \A t \in live : t.k = "loader" /\ t.pc \in Early =>
     ~slot[t.d].done /\ \A u \in live : u.d = t.d => u.pc \notin Holding

(* load_done of a running session means that its buffer is bound.          *)
Bound == \A t \in live : rt[t.d].run /\ slot[t.d].done => slot[t.d].buf = t.sid

Empty(d) == \A t \in live : t.d # d

(* What a caller may rely on at each place of a stop or a load.             *)
Phases ==
  /\ \A c \in Callers : op[c].pc \in {"free", "out", "outwait", "begin"} /\ op[c].ret # "fin" =>
        Empty(op[c].d)
  /\ op["worker"].pc = "loader" =>
        /\ Empty(op["worker"].d) /\ rt[op["worker"].d].started = 0
        /\ ~slot[op["worker"].d].done
  /\ op["worker"].pc = "decode" =>
        /\ ~Alive(op["worker"].d, "decode") /\ rt[op["worker"].d].started <= 1
        /\ rt[op["worker"].d].run /\ slot[op["worker"].d].done => slot[op["worker"].d].buf = nsid
  /\ op["worker"].pc \in {"loader", "decode"} =>
        /\ nsid > 0
        /\ ctx[op["worker"].d].deck = op["worker"].d
        /\ \A t \in live : t.d = op["worker"].d => t.sid = nsid

Clean(d) == Empty(d) /\ slot[d].src = 0 /\ slot[d].buf = 0

(* What the storage task's sweep has left behind it.                       *)
Swept ==
  op["storage"].pc \in StopPcs \cup {"unlock"} /\ op["storage"].rc = "OK" =>
    \A d \in Decks :
      \/ d < op["storage"].d
      \/ op["storage"].pc \in {"out", "outwait"} /\ d = op["storage"].d
      \/ op["storage"].ret = "fin"
      => Clean(d)

OneAtATime == \A t, u \in live : t.d = u.d => t.sid = u.sid

BuffersKept == \A t \in live : t.pc \in Holding => slot[t.d].buf = t.sid

Sessions == OnePerKind /\ OneAtATime /\ Contexts /\ NotYet /\ Bound /\ BuffersKept

(* The inductive invariant.                                                *)
IInv ==
  Types /\ Places /\ Locks /\ Counted /\ Phases /\ Swept /\ Sessions

-----------------------------------------------------------------------------
(* How the actions update the records of callers, decks and tasks.         *)

\* Decks are numbered from 0.
LEMMA DeckFacts == 0 \in Decks /\ Decks \subseteq Nat
  BY DeckSessionAssumption DEF Decks

\* A step that starts no session and no task.
Quieter == \A d \in Decks : rt'[d].started = rt[d].started /\ (rt'[d].run => rt[d].run)
Others(c) == \A x \in Callers : x # c => op'[x] = op[x]
OtherDecks(f, g, d) == \A e \in Decks : e # d => g[e] = f[e]

\* Moving a caller on changes its place and nothing else.
LEMMA GotoOp ==
  ASSUME OpType, NEW c \in Callers, NEW p \in CallPcs, Goto(c, p)
  PROVE  /\ OpType' /\ Others(c)
         /\ op'[c].pc = p /\ op'[c].d = op[c].d /\ op'[c].want = op[c].want
         /\ op'[c].got = op[c].got /\ op'[c].ret = op[c].ret /\ op'[c].rc = op[c].rc
  BY DEF OpType, Call, Goto, Others

\* A caller's record is replaced.
LEMMA SetOp ==
  ASSUME OpType, NEW c \in Callers, NEW r \in Call, op' = [op EXCEPT ![c] = r]
  PROVE  OpType' /\ Others(c) /\ op'[c] = r
  BY DEF OpType, Others

\* A call that ends leaves its caller idle and the others alone.
LEMMA IdleOp ==
  ASSUME OpType, NEW c \in Callers, op' = [op EXCEPT ![c] = Idle]
  PROVE  OpType' /\ Others(c) /\ op'[c].pc = "idle"
  BY DeckFacts DEF OpType, Call, ExpectedTasks, Idle, CallPcs, Others

\* audio_fw_runtime_invalidate_session
LEMMA InvalidateRt ==
  ASSUME RtType, NEW d \in Decks, Invalidate(d)
  PROVE  /\ RtType' /\ OtherDecks(rt, rt', d)
         /\ ~rt'[d].run /\ rt'[d].started = rt[d].started
  BY DEF RtType, Invalidate, OtherDecks, ExpectedTasks

\* ae_fail_load
LEMMA FailRt ==
  ASSUME RtType, NEW d \in Decks, rt' = [rt EXCEPT ![d].run = FALSE]
  PROVE  /\ RtType' /\ OtherDecks(rt, rt', d)
         /\ ~rt'[d].run /\ rt'[d].started = rt[d].started
  BY DEF RtType, OtherDecks, ExpectedTasks

\* A task that goes on is the same task at another place.
LEMMA AtLive ==
  ASSUME LiveType, NEW t \in live, NEW p, live' = At(t, p)
  PROVE  \E u : /\ u.d = t.d /\ u.k = t.k /\ u.sid = t.sid /\ u.pc = p
                /\ live' = (live \ {t}) \cup {u}
<1>1. t \in Task
  BY DEF LiveType
<1> DEFINE u == [t EXCEPT !.pc = p]
<1>2. u.d = t.d /\ u.k = t.k /\ u.sid = t.sid /\ u.pc = p
  BY <1>1 DEF Task
<1>3. live' = (live \ {t}) \cup {u}
  BY DEF At
<1> HIDE DEF u
<1> QED
  BY <1>2, <1>3

\* A task that moves to a place of its own kind stays a task.
LEMMA AtType ==
  ASSUME LiveType, NEW t \in live, NEW p, live' = At(t, p), nsid' = nsid,
         t.k = "loader" => p \in LoaderPcs, t.k = "decode" => p \in DecodePcs
  PROVE  LiveType'
  BY DEF LiveType, Task, At

-----------------------------------------------------------------------------
(* Frames.                                                                 *)

\* The deck a caller works on is held by it.
LEMMA Holder ==
  ASSUME OpType, Places, Locks, NEW c \in Callers, op[c].pc \in StopPcs \cup LoadPcs
  PROVE  op[c].d \in Decks /\ lock[op[c].d] = c
  BY DEF OpType, Call, Places, Locks, Callers, StopPcs, LoadPcs

\* A step that leaves alone what the tasks use, and starts none, keeps their
\* order.
LEMMA SessionFrame ==
  ASSUME Sessions, UNCHANGED live,
         \A t \in live : /\ slot'[t.d] = slot[t.d] /\ ctx'[t.d] = ctx[t.d]
                         /\ rt'[t.d].run => rt[t.d].run
  PROVE  Sessions'
  BY DEF Sessions, OnePerKind, OneAtATime, Contexts, NotYet, Bound, BuffersKept

\* What a step of a task keeps of the callers' side.
LEMMA TaskFrame ==
  ASSUME IInv, RtType', SlotType',
         UNCHANGED <<blocked, lock, ctx, op, nsid>>,
         \A d \in Decks : rt'[d].started = rt[d].started,
         \A v \in live' : \E w \in live : w.d = v.d /\ w.k = v.k /\ w.sid = v.sid,
         \A d \in Decks : Empty(d) => slot'[d] = slot[d],
         op["worker"].pc = "decode" /\ rt'[op["worker"].d].run /\ slot'[op["worker"].d].done
           => slot'[op["worker"].d].buf = nsid
  PROVE  Places' /\ Locks' /\ Phases' /\ Swept'
<1>1. Places' /\ Locks'
  BY DEF IInv, Places, Locks
<1>2. \A c \in Callers : op[c].d \in Decks
  BY DEF IInv, Types, OpType, Call
<1>4. \A d \in Decks : Empty(d) => Empty(d)'
  BY DEF Empty
<1>5. \A d, k : Alive(d, k)' => Alive(d, k)
  BY DEF Alive
<1>6. Phases'
  BY <1>2, <1>4, <1>5 DEF IInv, Phases, Callers
<1>7. Swept'
  BY <1>4 DEF IInv, Swept, Clean
<1> QED
  BY <1>1, <1>6, <1>7

\* A task that only moves on is counted as before.
LEMMA MoveFrame ==
  ASSUME Types, Counted, OnePerKind, OneAtATime, Contexts,
         NEW t \in live, NEW p, live' = At(t, p), UNCHANGED <<sem, op, ctx>>,
         Quieter
  PROVE  /\ Counted' /\ OnePerKind' /\ OneAtATime' /\ Contexts'
         /\ \A v \in live' : \E w \in live : w.d = v.d /\ w.k = v.k /\ w.sid = v.sid
         /\ \A v \in live' : v \in live \/ (v.d = t.d /\ v.k = t.k /\ v.sid = t.sid /\ v.pc = p)
<1>1. PICK u : /\ u.d = t.d /\ u.k = t.k /\ u.sid = t.sid /\ u.pc = p
               /\ live' = (live \ {t}) \cup {u}
  BY AtLive DEF Types
<1>2. \A d, k : Alive(d, k)' <=> Alive(d, k)
  BY <1>1 DEF Alive
<1>3. Counted'
  <2>1. \A d \in Decks : Busy(d)' = Busy(d)
    BY <1>2 DEF Busy
  <2> QED
    BY <2>1 DEF Counted, Joining, Quieter, Full
<1>4. OnePerKind' /\ OneAtATime' /\ Contexts'
  BY <1>1 DEF OnePerKind, OneAtATime, Contexts
<1> QED
  BY <1>1, <1>3, <1>4

\* A task that ends signals the deck it belongs to, and the count is kept.
LEMMA ExitFrame ==
  ASSUME IInv, NEW t \in live, Exits(t), UNCHANGED <<op, ctx, nsid>>,
         Quieter
  PROVE  /\ LiveType' /\ sem' \in [Decks -> 0 .. SemMax]
         /\ Counted' /\ OnePerKind' /\ OneAtATime' /\ Contexts'
         /\ live' \subseteq live
<1>1. t.d \in Decks /\ t.k \in Kinds
  BY DEF IInv, Types, LiveType, Task, Kinds
<1>2. ctx[t.d].deck = t.d
  BY DEF IInv, Sessions, Contexts
<1>3. live' = live \ {t}
  BY DEF Exits
<1>4. sem' = [sem EXCEPT ![t.d] = IF @ < SemMax THEN @ + 1 ELSE @]
  BY <1>2 DEF Exits
<1>5. sem \in [Decks -> 0 .. SemMax]
  BY DEF IInv, Types, FlatType
<1>6. /\ sem' \in [Decks -> 0 .. SemMax]
      /\ sem'[t.d] <= sem[t.d] + 1
      /\ \A d \in Decks : d # t.d => sem'[d] = sem[d]
  BY <1>1, <1>4, <1>5 DEF SemMax
<1>7. LiveType' /\ OnePerKind' /\ OneAtATime' /\ Contexts'
  BY <1>3 DEF IInv, Types, LiveType, Sessions, OnePerKind, OneAtATime, Contexts
<1>8. Alive(t.d, t.k) /\ ~Alive(t.d, t.k)'
  BY <1>3 DEF IInv, Sessions, OnePerKind, Alive
<1>9. \A d, k : (d # t.d \/ k # t.k) => (Alive(d, k)' <=> Alive(d, k))
  BY <1>3 DEF Alive
<1>10. /\ Busy(t.d)' = Busy(t.d) - 1
       /\ \A d \in Decks : d # t.d => Busy(d)' = Busy(d)
  BY <1>1, <1>8, <1>9 DEF Busy, Kinds
<1>11. \A d \in Decks : Busy(d) \in Nat /\ Busy(d)' \in Nat
  BY DEF Busy
<1>12. \A d \in Decks : Busy(d)' + sem'[d] <= Busy(d) + sem[d]
  BY <1>1, <1>5, <1>6, <1>10, <1>11 DEF SemMax
<1>13. Counted'
  <2>1. \A d \in Decks : sem[d] \in Nat /\ sem'[d] \in Nat /\ rt[d].started \in Nat
    BY <1>5, <1>6 DEF IInv, Types, RtType, SemMax, ExpectedTasks
  <2>2. \A c \in Callers : op[c].got \in Nat
    BY DEF IInv, Types, OpType, Call, ExpectedTasks
  <2>3. \A d \in Decks : Busy(d)' <= Busy(d)
    BY <1>10, <1>11
  <2> QED
    BY <1>10, <1>11, <1>12, <2>1, <2>2, <2>3 DEF IInv, Counted, Joining, Quieter, Full
<1> QED
  BY <1>3, <1>6, <1>7, <1>13

-----------------------------------------------------------------------------
(* The tasks of a session.                                                 *)

\* What a live task is: its deck, its session and the places of its kind.
LEMMA TaskFacts ==
  ASSUME IInv, NEW t \in live
  PROVE  /\ t \in Task /\ t.d \in Decks /\ t.sid \in 1 .. nsid /\ nsid \in Nat
         /\ \/ t.k = "loader" /\ t.pc \in LoaderPcs
            \/ t.k = "decode" /\ t.pc \in DecodePcs
         /\ ~Empty(t.d)
<1>1. t \in Task /\ t.sid \in 1 .. nsid /\ nsid \in Nat
  BY DEF IInv, Types, FlatType, LiveType
<1>2. /\ t.d \in Decks
      /\ \/ t.k = "loader" /\ t.pc \in LoaderPcs
         \/ t.k = "decode" /\ t.pc \in DecodePcs
  BY <1>1 DEF Task
<1>3. ~Empty(t.d)
  BY DEF Empty
<1> QED
  BY <1>1, <1>2, <1>3

\* A media read that begins or, for the decoder, ends is only a move.
LEMMA PlainMove ==
  ASSUME IInv, NEW t \in live, NEW p, live' = At(t, p),
         t.k = "loader" => p \in LoaderPcs, t.k = "decode" => p \in DecodePcs,
         p \in Holding <=> t.pc \in Holding, p \in Early <=> t.pc \in Early,
         UNCHANGED <<blocked, lock, loaded, rt, ctx, sem, slot, op, nsid>>
  PROVE  IInv'
<1> USE DEF IInv
<1>1. Types'
  BY AtType DEF Types, FlatType, LockType, RtType, CtxType, SlotType, OpType
<1>2. /\ Counted' /\ OnePerKind' /\ OneAtATime' /\ Contexts'
      /\ \A v \in live' : \E w \in live : w.d = v.d /\ w.k = v.k /\ w.sid = v.sid
      /\ \A v \in live' : v \in live \/ (v.d = t.d /\ v.k = t.k /\ v.sid = t.sid /\ v.pc = p)
  BY MoveFrame DEF Sessions, Quieter
<1>3. Places' /\ Locks' /\ Phases' /\ Swept'
  <2>1. op["worker"].pc = "decode" /\ rt'[op["worker"].d].run /\ slot'[op["worker"].d].done
          => slot'[op["worker"].d].buf = nsid
    BY DEF Phases
  <2> QED
    BY <1>1, <1>2, <2>1, TaskFrame DEF Types
<1>4. NotYet'
  BY <1>2 DEF Sessions, NotYet
<1>5. Bound' /\ BuffersKept'
  BY <1>2 DEF Sessions, Bound, BuffersKept, Holding
<1> QED
  BY <1>1, <1>2, <1>3, <1>4, <1>5 DEF Sessions

\* A media read begins: open, first page or later page.
LEMMA ReadBeginKeeps ==
  ASSUME IInv, NEW t \in live, ReadBegin(t)
  PROVE  IInv'
<1> DEFINE p == CASE t.pc = "open" -> "openio" [] t.pc = "fill" -> "fillio"
                  [] t.pc = "work" -> "workio"
<1>1. t.pc \in {"open", "fill", "work"} /\ live' = At(t, p)
  BY DEF ReadBegin
<1>2. UNCHANGED <<blocked, lock, loaded, rt, ctx, sem, slot, op, nsid>>
  BY DEF ReadBegin
<1>3. /\ t.k = "loader" => p \in LoaderPcs
      /\ t.k = "decode" => p \in DecodePcs
      /\ p \in Holding <=> t.pc \in Holding
      /\ p \in Early <=> t.pc \in Early
  BY <1>1, TaskFacts DEF LoaderPcs, DecodePcs, Holding, Early
<1> QED
  BY <1>1, <1>2, <1>3, PlainMove

\* The decoder's read of a later page returns.
LEMMA DecodeReadKeeps ==
  ASSUME IInv, NEW t \in live, DecodeRead(t)
  PROVE  IInv'
<1>1. /\ t.k = "loader" => "work" \in LoaderPcs
      /\ t.k = "decode" => "work" \in DecodePcs
      /\ "work" \in Holding <=> t.pc \in Holding
      /\ "work" \in Early <=> t.pc \in Early
  BY TaskFacts DEF DecodeRead, LoaderPcs, DecodePcs, Holding, Early
<1> QED
  BY <1>1, PlainMove DEF DecodeRead

\* A task ends and gives the exit semaphore.
LEMMA TaskEndKeeps ==
  ASSUME IInv, NEW t \in live, Exits(t),
         UNCHANGED <<blocked, lock, loaded, rt, ctx, slot, op, nsid>>
  PROVE  IInv'
<1> USE DEF IInv
<1>1. /\ LiveType' /\ sem' \in [Decks -> 0 .. SemMax]
      /\ Counted' /\ OnePerKind' /\ OneAtATime' /\ Contexts' /\ live' \subseteq live
  BY ExitFrame DEF Quieter
<1>2. Types'
  BY <1>1 DEF Types, FlatType, LockType, RtType, CtxType, SlotType, OpType
<1>3. Places' /\ Locks' /\ Phases' /\ Swept'
  <2>1. op["worker"].pc = "decode" /\ rt'[op["worker"].d].run /\ slot'[op["worker"].d].done
          => slot'[op["worker"].d].buf = nsid
    BY DEF Phases
  <2> QED
    BY <1>1, <1>2, <2>1, TaskFrame DEF Types
<1>4. NotYet' /\ Bound' /\ BuffersKept'
  BY <1>1 DEF Sessions, NotYet, Bound, BuffersKept
<1> QED
  BY <1>1, <1>2, <1>3, <1>4 DEF Sessions

\* The parts of the invariant that a step of a task which lives on keeps,
\* whatever it does to its deck's slot and "run".
LEMMA MoveKeeps ==
  ASSUME IInv, NEW t \in live, NEW p, live' = At(t, p),
         t.k = "loader" => p \in LoaderPcs, t.k = "decode" => p \in DecodePcs,
         UNCHANGED <<blocked, lock, ctx, sem, op, nsid>>,
         loaded' \in [Decks -> BOOLEAN], RtType', SlotType',
         Quieter,
         \A d \in Decks : d # t.d => slot'[d] = slot[d],
         op["worker"].pc = "decode" /\ rt'[op["worker"].d].run /\ slot'[op["worker"].d].done
           => slot'[op["worker"].d].buf = nsid,
         NotYet', Bound', BuffersKept'
  PROVE  IInv'
<1> USE DEF IInv
<1>1. Types'
  BY AtType DEF Types, FlatType, LockType, CtxType, OpType
<1>2. /\ Counted' /\ OnePerKind' /\ OneAtATime' /\ Contexts'
      /\ \A v \in live' : \E w \in live : w.d = v.d /\ w.k = v.k /\ w.sid = v.sid
  BY MoveFrame DEF Sessions
<1>3. \A d \in Decks : Empty(d) => slot'[d] = slot[d]
  BY TaskFacts
<1>4. Places' /\ Locks' /\ Phases' /\ Swept'
  BY <1>2, <1>3, TaskFrame DEF Quieter
<1> QED
  BY <1>1, <1>2, <1>4 DEF Sessions

\* After a move every task is an old one or the one that moved.
LEMMA MovedTasks ==
  ASSUME IInv, NEW t \in live, NEW p, live' = At(t, p)
  PROVE  \A v \in live' : \/ v \in live /\ v # t
                          \/ v.d = t.d /\ v.k = t.k /\ v.sid = t.sid /\ v.pc = p
  BY AtLive DEF IInv, Types

\* A slot that is cleared; the other decks' slots are not touched.
LEMMA EmptySlotType ==
  ASSUME SlotType, nsid \in Nat, NEW d \in Decks, slot' = [slot EXCEPT ![d] = EmptySlot],
         nsid' = nsid
  PROVE  SlotType' /\ slot'[d] = EmptySlot /\ OtherDecks(slot, slot', d)
  BY DEF SlotType, EmptySlot, OtherDecks

\* The loader starts and resets its slot, or the decoder starts and waits.
LEMMA TaskStartKeeps ==
  ASSUME IInv, NEW t \in live, TaskStart(t)
  PROVE  IInv'
<1>1. CASE ~IsCurrent(t.d)
  BY <1>1, TaskEndKeeps DEF TaskStart
<1>2. CASE IsCurrent(t.d) /\ t.k = "loader"
  <2>1. /\ live' = At(t, "open") /\ t.pc = "start"
        /\ slot' = [slot EXCEPT ![t.d] = EmptySlot]
        /\ UNCHANGED <<blocked, lock, loaded, rt, ctx, sem, op, nsid>>
    BY <1>2 DEF TaskStart
  <2>2. t.d \in Decks /\ nsid \in Nat
    BY TaskFacts
  <2>3. SlotType' /\ slot'[t.d] = EmptySlot /\ OtherDecks(slot, slot', t.d)
    BY <2>1, <2>2, EmptySlotType DEF IInv, Types
  <2>4. \A v \in live' : \/ v \in live /\ v # t
                         \/ v.d = t.d /\ v.k = t.k /\ v.sid = t.sid /\ v.pc = "open"
    BY <2>1, MovedTasks
  <2>5. \A v \in live' : v.d \in Decks
    BY <2>2, <2>4, TaskFacts
  <2>6. \A v \in live : v.d = t.d => v.pc \notin Holding
    BY <1>2, <2>1 DEF IInv, Sessions, NotYet, Early
  <2>7. NotYet'
    BY <1>2, <2>1, <2>3, <2>4, <2>5, <2>6
       DEF IInv, Sessions, NotYet, OtherDecks, EmptySlot, Early, Holding
  <2>8. Bound' /\ BuffersKept'
    BY <2>1, <2>3, <2>4, <2>5, <2>6
       DEF IInv, Sessions, Bound, BuffersKept, OtherDecks, EmptySlot, Holding
  <2>9. op["worker"].pc = "decode" /\ rt'[op["worker"].d].run /\ slot'[op["worker"].d].done
          => slot'[op["worker"].d].buf = nsid
    <3>1. op["worker"].d \in Decks
      BY DEF IInv, Types, OpType, Call, Callers
    <3> QED
      BY <2>1, <2>3, <3>1 DEF IInv, Phases, OtherDecks, EmptySlot
  <2>10. loaded' \in [Decks -> BOOLEAN] /\ RtType'
    BY <2>1 DEF IInv, Types, FlatType, RtType
  <2> QED
    BY <1>2, <2>1, <2>3, <2>7, <2>8, <2>9, <2>10, MoveKeeps DEF OtherDecks, LoaderPcs, Quieter
<1>3. CASE IsCurrent(t.d) /\ t.k # "loader"
  <2>1. /\ live' = At(t, "wait") /\ t.pc = "start"
        /\ UNCHANGED <<blocked, lock, loaded, rt, ctx, sem, slot, op, nsid>>
    BY <1>3 DEF TaskStart
  <2>2. \A v \in live' : \/ v \in live /\ v # t
                         \/ v.d = t.d /\ v.k = t.k /\ v.sid = t.sid /\ v.pc = "wait"
    BY <2>1, MovedTasks
  <2>3. NotYet'
    BY <1>3, <2>1, <2>2 DEF IInv, Sessions, NotYet, Early, Holding
  <2>4. Bound' /\ BuffersKept'
    BY <2>1, <2>2 DEF IInv, Sessions, Bound, BuffersKept, Holding
  <2>5. op["worker"].pc = "decode" /\ rt'[op["worker"].d].run /\ slot'[op["worker"].d].done
          => slot'[op["worker"].d].buf = nsid
    BY <2>1 DEF IInv, Phases
  <2>6. loaded' \in [Decks -> BOOLEAN] /\ RtType' /\ SlotType'
    BY <2>1 DEF IInv, Types, FlatType, RtType, SlotType
  <2> QED
    BY <1>3, <2>1, <2>3, <2>4, <2>5, <2>6, MoveKeeps DEF DecodePcs, Quieter
<1> QED
  BY <1>1, <1>2, <1>3

\* A slot that is bound to a session's file and buffer.
LEMMA BindSlotType ==
  ASSUME SlotType, nsid \in Nat, NEW d \in Decks, NEW i \in 1 .. nsid, nsid' = nsid,
         slot' = [slot EXCEPT ![d] = [src |-> i, buf |-> i, done |-> FALSE]]
  PROVE  /\ SlotType' /\ OtherDecks(slot, slot', d)
         /\ slot'[d] = [src |-> i, buf |-> i, done |-> FALSE]
  BY DEF SlotType, OtherDecks

\* A slot whose load_done is set keeps source and buffer.
LEMMA DoneSlotType ==
  ASSUME SlotType, NEW d \in Decks, nsid' = nsid, slot' = [slot EXCEPT ![d].done = TRUE]
  PROVE  /\ SlotType' /\ OtherDecks(slot, slot', d)
         /\ slot'[d].buf = slot[d].buf /\ slot'[d].src = slot[d].src
  BY DEF SlotType, OtherDecks

\* The load worker always names a deck.
LEMMA WorkerDeck ==
  ASSUME IInv
  PROVE  op["worker"].d \in Decks
  BY DEF IInv, Types, OpType, Call, Callers

\* The file is open and the cache bound to it, or the load fails.
LEMMA LoaderOpenedKeeps ==
  ASSUME IInv, NEW t \in live, LoaderOpened(t)
  PROVE  IInv'
<1>1. /\ t.pc = "openio" /\ t.k = "loader" /\ t.d \in Decks /\ t.sid \in 1 .. nsid /\ nsid \in Nat
      /\ UNCHANGED <<blocked, lock, ctx, sem, op, nsid>>
  BY TaskFacts DEF LoaderOpened, LoaderPcs, DecodePcs
<1>2. ~slot[t.d].done /\ \A v \in live : v.d = t.d => v.pc \notin Holding
  BY <1>1 DEF IInv, Sessions, NotYet, Early
<1>3. SlotType /\ RtType /\ loaded \in [Decks -> BOOLEAN]
  BY DEF IInv, Types, FlatType
<1>4. CASE /\ slot' = [slot EXCEPT ![t.d] = [src |-> t.sid, buf |-> t.sid, done |-> FALSE]]
           /\ live' = At(t, "fill")
           /\ UNCHANGED <<loaded, rt>>
  <2>1. /\ SlotType' /\ OtherDecks(slot, slot', t.d)
        /\ slot'[t.d].buf = t.sid /\ ~slot'[t.d].done
    <3>1. /\ SlotType' /\ OtherDecks(slot, slot', t.d)
          /\ slot'[t.d] = [src |-> t.sid, buf |-> t.sid, done |-> FALSE]
      BY <1>1, <1>3, <1>4, BindSlotType
    <3> QED
      BY <3>1
  <2>2. \A v \in live' : \/ v \in live /\ v # t
                         \/ v.d = t.d /\ v.k = t.k /\ v.sid = t.sid /\ v.pc = "fill"
    BY <1>4, MovedTasks
  <2>3. \A v \in live' : v.d \in Decks
    BY <1>1, <2>2, TaskFacts
  <2>4. NotYet'
    <3>1. \A v \in live' : v.k = "loader" /\ v.pc \in Early => v \in live /\ v.d # t.d
      BY <1>1, <2>2 DEF IInv, Sessions, OnePerKind, Early
    <3> QED
      BY <2>1, <2>2, <2>3, <3>1 DEF IInv, Sessions, NotYet, OtherDecks
  <2>5. Bound' /\ BuffersKept'
    BY <1>2, <1>4, <2>1, <2>2, <2>3
       DEF IInv, Sessions, Bound, BuffersKept, OtherDecks, Holding
  <2>6. op["worker"].pc = "decode" /\ rt'[op["worker"].d].run /\ slot'[op["worker"].d].done
          => slot'[op["worker"].d].buf = nsid
    BY <1>4, <2>1, WorkerDeck DEF IInv, Phases, OtherDecks
  <2>7. loaded' \in [Decks -> BOOLEAN] /\ RtType'
    BY <1>3, <1>4 DEF RtType
  <2> QED
    BY <1>1, <1>4, <2>1, <2>4, <2>5, <2>6, <2>7, MoveKeeps DEF OtherDecks, LoaderPcs, Quieter
<1>5. CASE /\ FailLoad(t.d)
           /\ slot' = [slot EXCEPT ![t.d].done = TRUE]
           /\ live' = At(t, "park")
  <2>1. SlotType' /\ OtherDecks(slot, slot', t.d) /\ slot'[t.d].buf = slot[t.d].buf
    BY <1>1, <1>3, <1>5, DoneSlotType
  <2>2. RtType' /\ OtherDecks(rt, rt', t.d) /\ ~rt'[t.d].run /\ rt'[t.d].started = rt[t.d].started
    BY <1>1, <1>3, <1>5, FailRt DEF FailLoad
  <2>3. \A v \in live' : \/ v \in live /\ v # t
                         \/ v.d = t.d /\ v.k = t.k /\ v.sid = t.sid /\ v.pc = "park"
    BY <1>5, MovedTasks
  <2>4. \A v \in live' : v.d \in Decks
    BY <1>1, <2>3, TaskFacts
  <2>5. NotYet'
    <3>1. \A v \in live' : v.k = "loader" /\ v.pc \in Early => v \in live /\ v.d # t.d
      BY <1>1, <2>3 DEF IInv, Sessions, OnePerKind, Early
    <3> QED
      BY <2>1, <2>3, <2>4, <3>1 DEF IInv, Sessions, NotYet, OtherDecks
  <2>6. Bound' /\ BuffersKept'
    BY <1>2, <2>1, <2>2, <2>3, <2>4
       DEF IInv, Sessions, Bound, BuffersKept, OtherDecks, Holding
  <2>7. op["worker"].pc = "decode" /\ rt'[op["worker"].d].run /\ slot'[op["worker"].d].done
          => slot'[op["worker"].d].buf = nsid
    BY <2>1, <2>2, WorkerDeck DEF IInv, Phases, OtherDecks
  <2>8. loaded' \in [Decks -> BOOLEAN]
    BY <1>3, <1>5 DEF FailLoad
  <2>9. Quieter
    BY <2>2 DEF OtherDecks, Quieter
  <2> QED
    BY <1>1, <1>5, <2>1, <2>2, <2>5, <2>6, <2>7, <2>8, <2>9, MoveKeeps DEF OtherDecks, LoaderPcs
<1> QED
  BY <1>4, <1>5 DEF LoaderOpened

\* The first page is in the buffer, or the load fails.
LEMMA LoaderFilledKeeps ==
  ASSUME IInv, NEW t \in live, LoaderFilled(t)
  PROVE  IInv'
<1>1. /\ t.pc = "fillio" /\ t.k = "loader" /\ t.d \in Decks
      /\ UNCHANGED <<blocked, lock, ctx, sem, op, nsid>>
      /\ slot' = [slot EXCEPT ![t.d].done = TRUE]
      /\ live' = At(t, "park")
  BY TaskFacts DEF LoaderFilled, LoaderPcs, DecodePcs
<1>2. SlotType /\ RtType /\ loaded \in [Decks -> BOOLEAN]
  BY DEF IInv, Types, FlatType
<1>3. SlotType' /\ OtherDecks(slot, slot', t.d) /\ slot'[t.d].buf = slot[t.d].buf
  BY <1>1, <1>2, DoneSlotType
<1>4. slot[t.d].buf = t.sid /\ \A v \in live : v.d = t.d => v.sid = t.sid
  BY <1>1 DEF IInv, Sessions, BuffersKept, OneAtATime, Holding
<1>5. /\ RtType' /\ loaded' \in [Decks -> BOOLEAN]
      /\ \A d \in Decks : rt'[d].started = rt[d].started /\ (rt'[d].run => rt[d].run)
  <2>1. CASE UNCHANGED <<loaded, rt>>
    BY <1>2, <2>1 DEF RtType
  <2>2. CASE FailLoad(t.d)
    BY <1>1, <1>2, <2>2, FailRt DEF FailLoad, OtherDecks
  <2> QED
    BY <2>1, <2>2 DEF LoaderFilled
<1>6. \A v \in live' : \/ v \in live /\ v # t
                       \/ v.d = t.d /\ v.k = t.k /\ v.sid = t.sid /\ v.pc = "park"
  BY <1>1, MovedTasks
<1>7. \A v \in live' : v.d \in Decks
  BY <1>1, <1>6, TaskFacts
<1>8. NotYet'
  <2>1. \A v \in live' : v.k = "loader" /\ v.pc \in Early => v \in live /\ v.d # t.d
    BY <1>1, <1>6 DEF IInv, Sessions, OnePerKind, Early
  <2> QED
    BY <1>3, <1>6, <1>7, <2>1 DEF IInv, Sessions, NotYet, OtherDecks
<1>9. Bound' /\ BuffersKept'
  BY <1>3, <1>4, <1>5, <1>6, <1>7
     DEF IInv, Sessions, Bound, BuffersKept, OtherDecks
<1>10. op["worker"].pc = "decode" /\ rt'[op["worker"].d].run /\ slot'[op["worker"].d].done
         => slot'[op["worker"].d].buf = nsid
  BY <1>3, <1>4, <1>5, WorkerDeck DEF IInv, Phases, OtherDecks
<1> QED
  BY <1>1, <1>3, <1>5, <1>8, <1>9, <1>10, MoveKeeps DEF OtherDecks, LoaderPcs, Quieter

\* load_done of a session that still runs: the decoder uses the buffer.
LEMMA DecodeReadyKeeps ==
  ASSUME IInv, NEW t \in live, DecodeReady(t)
  PROVE  IInv'
<1>1. /\ t.pc = "wait" /\ t.k = "decode" /\ t.d \in Decks
      /\ rt[t.d].run /\ slot[t.d].done
      /\ UNCHANGED <<blocked, lock, ctx, sem, slot, op, nsid>>
      /\ live' = At(t, "work")
  BY TaskFacts DEF DecodeReady, LoaderPcs, DecodePcs
<1>2. SlotType /\ RtType /\ loaded \in [Decks -> BOOLEAN]
  BY DEF IInv, Types, FlatType
<1>3. SlotType'
  BY <1>1, <1>2 DEF SlotType
<1>4. slot[t.d].buf = t.sid
  BY <1>1 DEF IInv, Sessions, Bound
<1>5. /\ RtType' /\ loaded' \in [Decks -> BOOLEAN]
      /\ \A d \in Decks : rt'[d].started = rt[d].started /\ (rt'[d].run => rt[d].run)
  <2>1. CASE UNCHANGED <<loaded, rt>>
    BY <1>2, <2>1 DEF RtType
  <2>2. CASE FailLoad(t.d)
    BY <1>1, <1>2, <2>2, FailRt DEF FailLoad, OtherDecks
  <2> QED
    BY <2>1, <2>2 DEF DecodeReady
<1>6. \A v \in live' : \/ v \in live /\ v # t
                       \/ v.d = t.d /\ v.k = t.k /\ v.sid = t.sid /\ v.pc = "work"
  BY <1>1, MovedTasks
<1>7. \A v \in live' : v.d \in Decks
  BY <1>1, <1>6, TaskFacts
<1>8. NotYet'
  <2>1. \A v \in live : v.k = "loader" /\ v.pc \in Early => v.d # t.d
    BY <1>1 DEF IInv, Sessions, NotYet
  <2> QED
    BY <1>1, <1>6, <2>1 DEF IInv, Sessions, NotYet, Early
<1>9. Bound' /\ BuffersKept'
  BY <1>1, <1>4, <1>5, <1>6, <1>7
     DEF IInv, Sessions, Bound, BuffersKept
<1>10. op["worker"].pc = "decode" /\ rt'[op["worker"].d].run /\ slot'[op["worker"].d].done
         => slot'[op["worker"].d].buf = nsid
  BY <1>1, <1>5, WorkerDeck DEF IInv, Phases
<1> QED
  BY <1>1, <1>3, <1>5, <1>8, <1>9, <1>10, MoveKeeps DEF DecodePcs, Quieter

-----------------------------------------------------------------------------
(* The callers: stopping a deck.                                           *)

\* No two callers work on the same deck.
LEMMA Apart ==
  ASSUME OpType, Places, Locks, NEW c \in Callers, NEW x \in Callers, x # c,
         op[c].pc \in StopPcs \cup LoadPcs, op[x].pc \in StopPcs \cup LoadPcs
  PROVE  op[x].d # op[c].d
  BY Holder

\* A step of a caller that starts and joins nothing keeps the count.
LEMMA CountFrame ==
  ASSUME Types, Counted, NEW c \in Callers, Others(c), UNCHANGED <<live, sem>>,
         Quieter,
         op'[c].pc \in {"join", "ajoin"} => op'[c].got = 0 /\ Full(op'[c].d),
         op'[c].pc \notin {"loader", "decode", "output"}
  PROVE  Counted'
<1>1. \A d \in Decks : Busy(d)' = Busy(d) /\ Busy(d) \in Nat
  BY DEF Busy, Alive
<1>2. \A d \in Decks : sem[d] \in Nat /\ rt[d].started \in Nat
  BY DEF Types, FlatType, RtType, SemMax, ExpectedTasks
<1>3. ASSUME NEW d \in Decks, NEW x \in Callers, Joining(x, d)'
      PROVE  Busy(d)' + sem'[d] + op'[x].got <= rt'[d].started
  <2>1. CASE x = c
    BY <1>1, <1>2, <1>3, <2>1 DEF Counted, Joining, Quieter, Full
  <2>2. CASE x # c
    BY <1>1, <1>3, <2>2 DEF Counted, Joining, Others, Quieter
  <2> QED
    BY <2>1, <2>2
<1>4. op'["worker"].pc \in {"loader", "decode", "output"} => op'["worker"] = op["worker"]
  BY DEF Others, Callers
<1> QED
  BY <1>1, <1>3, <1>4 DEF Counted, Quieter, Full

\* Where a call of the stop is, the caller's kind of call fits.
Kept(c) == /\ op'[c].d = op[c].d /\ op'[c].ret = op[c].ret /\ op'[c].rc = op[c].rc

\* A caller that goes from one place of the stop to another.
LEMMA StopMove ==
  ASSUME OpType, OpType', Places, Locks, NEW c \in Callers, Others(c), Kept(c),
         op[c].pc \in StopPcs, op'[c].pc \in StopPcs,
         op'[c].pc \in {"stop", "join", "free"} => op[c].pc \in {"stop", "join", "free"},
         UNCHANGED <<blocked, lock>>
  PROVE  Places' /\ Locks'
<1>1. CASE c = "worker"
  BY <1>1 DEF Places, Locks, Others, Kept, Callers, StopPcs
<1>2. CASE c = "ui"
  BY <1>2 DEF Places, Locks, Others, Kept, Callers, StopPcs
<1>3. CASE c = "storage"
  BY <1>3 DEF Places, Locks, Others, Kept, Callers, StopPcs
<1> QED
  BY <1>1, <1>2, <1>3 DEF Callers

\* What the invariant says of the callers that do not move.
LEMMA PhaseFrame ==
  ASSUME IInv, NEW c \in Callers, Others(c), op[c].pc \in StopPcs \cup LoadPcs,
         UNCHANGED live, nsid' = nsid,
         OtherDecks(rt, rt', op[c].d), OtherDecks(slot, slot', op[c].d),
         OtherDecks(ctx, ctx', op[c].d),
         op'[c].pc \in {"free", "out", "outwait", "begin"} /\ op'[c].ret # "fin"
           => Empty(op'[c].d),
         op'[c].pc \notin {"loader", "decode"}
  PROVE  Phases'
<1>1. \A d : Empty(d)' <=> Empty(d)
  BY DEF Empty
<1>2. \A d, k : Alive(d, k)' <=> Alive(d, k)
  BY DEF Alive
<1>3. \A x \in Callers : op'[x].pc \in {"free", "out", "outwait", "begin"} /\ op'[x].ret # "fin"
        => Empty(op'[x].d)
  BY DEF Others, IInv, Phases
<1>4. ASSUME op'["worker"].pc \in {"loader", "decode"}
      PROVE  /\ op'["worker"] = op["worker"]
             /\ op["worker"].d \in Decks /\ op["worker"].d # op[c].d
  <2>1. c # "worker"
    BY <1>4
  <2>2. op'["worker"] = op["worker"]
    BY <2>1 DEF Others, Callers
  <2> QED
    BY <1>4, <2>1, <2>2, Apart, Holder DEF IInv, Types, Callers, LoadPcs
<1>5. \A e \in Decks : e # op[c].d => rt'[e] = rt[e] /\ slot'[e] = slot[e] /\ ctx'[e] = ctx[e]
  BY DEF OtherDecks
<1> QED
  BY <1>1, <1>2, <1>3, <1>4, <1>5 DEF IInv, Phases

\* The sweep's record, when it does not move or another caller does.
LEMMA SweptFrame ==
  ASSUME IInv, NEW c \in Callers, Others(c), Kept(c), op[c].pc \in StopPcs \cup LoadPcs,
         op'[c].pc \in StopPcs \cup LoadPcs,
         UNCHANGED <<live, slot>>,
         op'[c].pc \in {"out", "outwait"} => op[c].pc \in {"out", "outwait"}
  PROVE  Swept'
<1>1. \A d : Clean(d)' <=> Clean(d)
  BY DEF Clean, Empty
<1>2. CASE c = "storage"
  BY <1>1, <1>2 DEF IInv, Swept, Kept, Places, StopPcs, LoadPcs
<1>3. CASE c # "storage"
  BY <1>1, <1>3 DEF IInv, Swept, Others, Callers
<1> QED
  BY <1>2, <1>3

\* "run" is cleared and the join begins, or there is nothing to join.
LEMMA StopBeginKeeps ==
  ASSUME IInv, NEW c \in Callers, StopBegin(c)
  PROVE  IInv'
<1>0. PICK d \in Decks : d = op[c].d
  BY DEF IInv, Types, OpType, Call
<1>1. /\ op[c].pc = "stop"
      /\ UNCHANGED <<blocked, lock, loaded, ctx, sem, slot, live, nsid>>
  BY DEF StopBegin
<1>2. op[c].pc \in StopPcs
  BY <1>0, <1>1 DEF StopPcs
<1>3. OpType /\ RtType /\ rt[d].started \in 0 .. ExpectedTasks
  BY <1>0, <1>2 DEF IInv, Types, RtType
<1>4. /\ OpType' /\ Others(c) /\ Kept(c) /\ op'[c].pc \in {"join", "free"}
      /\ op'[c].pc = "join" => op'[c].got = 0
      /\ RtType' /\ OtherDecks(rt, rt', d)
      /\ rt'[d].started = rt[d].started /\ (rt'[d].run => rt[d].run)
      /\ op'[c].pc = "free" => rt[d].started = 0
      /\ op'[c].pc = "join" => Full(d)
  <2>1. CASE rt[d].run \/ rt[d].started > 0
    <3>1. /\ Invalidate(d)
          /\ op' = [op EXCEPT ![c].pc = "join", ![c].want = rt[d].started, ![c].got = 0]
      BY <1>0, <2>1 DEF StopBegin
    <3>2. "join" \in CallPcs /\ 0 \in 0 .. ExpectedTasks
      BY DEF CallPcs, StopPcs, ExpectedTasks
    <3>3. PICK w \in 0 .. ExpectedTasks, g \in 0 .. ExpectedTasks, p \in CallPcs :
             w = rt[d].started /\ g = 0 /\ p = "join"
      BY <1>3, <3>2
    <3>4. op' = [op EXCEPT ![c].pc = p, ![c].want = w, ![c].got = g]
      BY <3>1, <3>3
    <3>5. OpType' /\ Others(c) /\ Kept(c) /\ op'[c].pc = p /\ op'[c].got = g
      <4> DEFINE n == [op[c] EXCEPT !.pc = p, !.want = w, !.got = g]
      <4>1. op[c] \in Call
        BY <1>3 DEF OpType
      <4>2. /\ n \in Call /\ n.pc = p /\ n.want = w /\ n.got = g
            /\ n.d = op[c].d /\ n.ret = op[c].ret /\ n.rc = op[c].rc
        BY <4>1 DEF Call
      <4>3. op' = [op EXCEPT ![c] = n]
        BY <3>4
      <4> HIDE DEF n
      <4>4. OpType' /\ Others(c) /\ op'[c] = n
        BY <1>3, <4>2, <4>3, SetOp
      <4> QED
        BY <4>2, <4>4 DEF Kept
    <3>6. Full(d)
      BY <1>3, <2>1 DEF IInv, Counted, ExpectedTasks
    <3> QED
      BY <1>0, <1>2, <1>3, <3>1, <3>3, <3>5, <3>6, InvalidateRt
  <2>2. CASE ~(rt[d].run \/ rt[d].started > 0)
    <3>1. Goto(c, "free") /\ UNCHANGED rt
      BY <1>0, <2>2 DEF StopBegin
    <3>2. "free" \in CallPcs
      BY DEF CallPcs, StopPcs
    <3>3. OpType' /\ Others(c) /\ Kept(c) /\ op'[c].pc = "free"
      BY <1>0, <1>3, <3>1, <3>2, GotoOp DEF Kept
    <3>4. rt[d].started = 0
      BY <1>0, <1>3, <2>2 DEF ExpectedTasks
    <3> QED
      BY <1>0, <1>3, <3>1, <3>3, <3>4 DEF RtType, OtherDecks
  <2> QED
    BY <1>0, <2>1, <2>2
<1>5. Quieter
  BY <1>0, <1>4 DEF OtherDecks, Quieter
<1>6. Types'
  BY <1>0, <1>1, <1>4 DEF IInv, Types, FlatType, LockType, CtxType, SlotType, LiveType
<1>7. Places' /\ Locks'
  BY <1>0, <1>1, <1>2, <1>3, <1>4, StopMove DEF IInv, StopPcs
<1>8. Counted'
  <2>1. op'[c].pc \in {"join", "ajoin"} => op'[c].got = 0 /\ Full(op'[c].d)
    BY <1>0, <1>4 DEF Kept
  <2> QED
    BY <1>0, <1>1, <1>4, <1>5, <2>1, CountFrame DEF IInv
<1>10. Phases'
  <2>1. op'[c].pc = "free" => Empty(d)
    <3>1. SUFFICES ASSUME rt[d].started = 0 PROVE Empty(d)
      BY <1>0, <1>4
    <3>2. sem[d] \in Nat /\ Busy(d) \in Nat
      BY <1>0, <1>2 DEF IInv, Types, FlatType, SemMax, Busy
    <3>3. Busy(d) = 0
      BY <1>0, <1>2, <3>1, <3>2 DEF IInv, Counted, Full
    <3>4. ~Alive(d, "loader") /\ ~Alive(d, "decode")
      BY <3>3 DEF Busy
    <3> QED
      BY <3>4, TaskFacts DEF Alive, Empty
  <2> QED
    BY <1>0, <1>1, <1>2, <1>4, <2>1, PhaseFrame DEF OtherDecks, Kept
<1>11. Swept'
  BY <1>0, <1>1, <1>2, <1>4, SweptFrame DEF StopPcs
<1>12. Sessions'
  BY <1>1, <1>5, SessionFrame, TaskFacts DEF IInv, Quieter
<1> QED
  BY <1>0, <1>6, <1>7, <1>8, <1>10, <1>11, <1>12 DEF IInv

\* One exit signal is taken, or one wait for it times out.
LEMMA JoinKeeps ==
  ASSUME IInv, NEW c \in Callers, Join(c)
  PROVE  IInv'
<1>0. PICK d \in Decks : d = op[c].d
  BY DEF IInv, Types, OpType, Call
<1>1. /\ op[c].pc \in {"join", "ajoin"} /\ op[c].want > 0
      /\ UNCHANGED <<blocked, lock, loaded, rt, ctx, slot, live, nsid>>
  BY DEF Join
<1>2. op[c].pc \in StopPcs \cup LoadPcs
  BY <1>0, <1>1 DEF StopPcs, LoadPcs
<1>3. /\ OpType /\ op[c].want \in 0 .. 2 /\ op[c].got \in 0 .. 2
      /\ rt[d].started \in 0 .. 2 /\ sem \in [Decks -> 0 .. SemMax]
      /\ Busy(d) \in Nat /\ Busy(d) + sem[d] + op[c].got <= rt[d].started
  BY <1>0, <1>1, <1>2 DEF IInv, Types, FlatType, OpType, Call, RtType, ExpectedTasks, Busy,
                    Counted, Joining
<1>4. /\ OpType' /\ Others(c) /\ Kept(c) /\ op'[c].pc = op[c].pc
      /\ op'[c].want = op[c].want - 1
      /\ sem' \in [Decks -> 0 .. SemMax] /\ OtherDecks(sem, sem', d)
      /\ sem'[d] + op'[c].got = sem[d] + op[c].got
  <2>1. CASE /\ sem[d] > 0
             /\ sem' = [sem EXCEPT ![d] = @ - 1]
             /\ op' = [op EXCEPT ![c].want = @ - 1, ![c].got = @ + 1]
    <3>1. op[c].got < 2
      BY <1>0, <1>2, <1>3, <2>1 DEF SemMax
    <3>2. /\ OpType' /\ Others(c) /\ Kept(c) /\ op'[c].pc = op[c].pc
          /\ op'[c].want = op[c].want - 1 /\ op'[c].got = op[c].got + 1
      BY <1>0, <1>1, <1>3, <2>1, <3>1 DEF OpType, Call, ExpectedTasks, Others, Kept
    <3>3. sem' \in [Decks -> 0 .. SemMax] /\ OtherDecks(sem, sem', d) /\ sem'[d] = sem[d] - 1
      BY <1>0, <1>2, <1>3, <2>1 DEF SemMax, OtherDecks
    <3> QED
      BY <1>0, <1>2, <1>3, <3>2, <3>3 DEF SemMax
  <2>2. CASE /\ op' = [op EXCEPT ![c].want = @ - 1]
             /\ UNCHANGED sem
    <3>1. /\ OpType' /\ Others(c) /\ Kept(c) /\ op'[c].pc = op[c].pc
          /\ op'[c].want = op[c].want - 1 /\ op'[c].got = op[c].got
      BY <1>0, <1>1, <1>3, <2>2 DEF OpType, Call, ExpectedTasks, Others, Kept
    <3> QED
      BY <1>0, <1>3, <2>2, <3>1 DEF OtherDecks
  <2> QED
    BY <1>0, <2>1, <2>2 DEF Join
<1>5. Types'
  BY <1>0, <1>1, <1>4 DEF IInv, Types, FlatType, LockType, RtType, CtxType, SlotType, LiveType
<1>6. Places' /\ Locks'
  <2>1. CASE c = "worker"
    BY <1>0, <1>1, <1>4, <2>1 DEF IInv, Places, Locks, Others, Kept, Callers
  <2>2. CASE c = "ui"
    BY <1>0, <1>1, <1>4, <2>2 DEF IInv, Places, Locks, Others, Kept, Callers
  <2>3. CASE c = "storage"
    BY <1>0, <1>1, <1>4, <2>3 DEF IInv, Places, Locks, Others, Kept, Callers
  <2> QED
    BY <1>0, <2>1, <2>2, <2>3 DEF Callers
<1>7. Counted'
  <2>1. \A e \in Decks : Busy(e)' = Busy(e) /\ Busy(e) \in Nat
    BY <1>0, <1>1 DEF Busy, Alive
  <2>2. op'[c].got \in Nat /\ sem'[d] \in Nat /\ sem[d] \in Nat
    BY <1>0, <1>2, <1>3, <1>4 DEF OpType, Call, Callers, ExpectedTasks, SemMax
  <2>3. /\ Full(d)'
        /\ \A x \in Callers : Joining(x, d)' =>
              Busy(d)' + sem'[d] + op'[x].got <= rt'[d].started
    <3>1. Busy(d) + sem'[d] + op'[c].got <= rt[d].started
      BY <1>0, <1>3, <1>4, <2>2
    <3>2. ASSUME NEW x \in Callers, x # c PROVE ~Joining(x, d)'
      <4>1. op'[x] = op[x]
        BY <1>0, <1>4, <3>2 DEF Others
      <4>2. op[x].pc \in {"join", "ajoin"} => op[x].d # d
        BY <1>0, <1>2, <3>2, Apart DEF IInv, Types, StopPcs, LoadPcs
      <4> QED
        BY <4>1, <4>2 DEF Joining
    <3>3. Busy(d)' = Busy(d) /\ rt' = rt
      BY <1>0, <1>1, <1>2, <2>1
    <3> QED
      BY <1>0, <1>3, <2>2, <3>1, <3>2, <3>3 DEF Full
  <2>4. ASSUME NEW e \in Decks, e # d
        PROVE  /\ Full(e)' <=> Full(e)
               /\ Busy(e)' = Busy(e) /\ rt'[e] = rt[e]
               /\ \A x \in Callers : Joining(x, e)' =>
                    Busy(e)' + sem'[e] + op'[x].got <= rt'[e].started
    <3>1. sem'[e] = sem[e] /\ ~Joining(c, e)'
      BY <1>0, <1>4, <2>4 DEF OtherDecks, Joining, Kept
    <3>2. \A x \in Callers : Joining(x, e)' => Joining(x, e) /\ op'[x] = op[x]
      BY <1>0, <1>4, <3>1 DEF Joining, Others
    <3> QED
      BY <1>0, <1>1, <2>1, <3>1, <3>2 DEF IInv, Counted, Full
  <2>5. op'["worker"].pc \in {"loader", "decode", "output"} => op'["worker"] = op["worker"]
    BY <1>1, <1>4 DEF Others, Callers
  <2>6. \A e \in Decks : e = d \/ e # d
    OBVIOUS
  <2> QED
    BY <1>0, <2>3, <2>4, <2>5, <2>6 DEF IInv, Counted
<1>9. Phases'
  BY <1>0, <1>1, <1>2, <1>4, PhaseFrame DEF OtherDecks
<1>10. Swept'
  BY <1>0, <1>1, <1>2, <1>4, SweptFrame
<1>11. Sessions'
  BY <1>0, <1>1, SessionFrame DEF IInv
<1> QED
  BY <1>0, <1>5, <1>6, <1>7, <1>9, <1>10, <1>11 DEF IInv

\* How a stop that returns rc leaves its caller.
Returned(c, rc) ==
  \/ /\ c = "worker" /\ rc = "OK"
     /\ op'[c].pc = "begin" /\ Kept(c) /\ UNCHANGED lock
  \/ /\ c \in {"worker", "ui"}
     /\ op'[c].pc = "idle" /\ lock' = [lock EXCEPT ![op[c].d] = None]
  \/ /\ c = "storage" /\ op[c].ret = "all" /\ op[c].d + 1 \in Decks
     /\ op'[c].pc = "stop" /\ op'[c].ret = "all" /\ op'[c].d = op[c].d + 1
     /\ op'[c].rc = "OK" => op[c].rc = "OK" /\ rc = "OK"
     /\ UNCHANGED lock
  \/ /\ c = "storage" /\ op[c].ret = "all" /\ op[c].d + 1 \notin Decks
     /\ op'[c].pc = "out" /\ op'[c].ret = "fin" /\ op'[c].d = op[c].d
     /\ op'[c].rc = "OK" => op[c].rc = "OK" /\ rc = "OK"
     /\ UNCHANGED lock
  \/ /\ c = "storage" /\ op[c].ret = "fin"
     /\ op'[c].pc = "unlock" /\ op'[c].ret = "fin" /\ op'[c].d = op[c].d
     /\ op'[c].rc = "OK" => op[c].rc = "OK" /\ rc = "OK"
     /\ UNCHANGED lock

\* Return leaves the caller as Returned says, and the others alone.
LEMMA ReturnOp ==
  ASSUME OpType, LockType, Places, NEW c \in Callers, NEW rc \in {"OK", "TIMEOUT"},
         op[c].pc \in StopPcs, Return(c, rc)
  PROVE  OpType' /\ LockType' /\ Others(c) /\ Returned(c, rc)
<1> USE DEF Callers
<1>1. CASE c = "worker" /\ rc = "OK"
  <2>1. op[c].ret = "load"
    BY <1>1 DEF Places, StopPcs
  <2>2. Goto(c, "begin") /\ UNCHANGED lock
    BY <1>1, <2>1 DEF Return
  <2>3. "begin" \in CallPcs
    BY DEF CallPcs, LoadPcs
  <2> QED
    BY <1>1, <2>2, <2>3, GotoOp DEF Returned, Kept, LockType
<1>2. CASE c \in {"worker", "ui"} /\ ~(c = "worker" /\ rc = "OK")
  <2>1. op[c].ret \in {"load", "stop"} /\ ~(op[c].ret = "load" /\ rc = "OK")
    BY <1>2 DEF Places, StopPcs
  <2>2. op' = [op EXCEPT ![c] = Idle] /\ lock' = [lock EXCEPT ![op[c].d] = None]
    BY <2>1 DEF Return
  <2> QED
    BY <1>2, <2>2, IdleOp DEF Returned, LockType
<1>3. CASE c = "storage" /\ op[c].ret = "all"
  <2> DEFINE more == op[c].d + 1 \in Decks
             err == IF op[c].rc = "OK" THEN rc ELSE op[c].rc
             r == [op[c] EXCEPT !.rc = err,
                                !.d = IF more THEN op[c].d + 1 ELSE op[c].d,
                                !.pc = IF more THEN "stop" ELSE "out",
                                !.ret = IF more THEN "all" ELSE "fin"]
  <2>1. op' = [op EXCEPT ![c] = r] /\ UNCHANGED lock
    BY <1>3 DEF Return
  <2>2. op[c] \in Call
    BY DEF OpType
  <2>3. /\ r \in Call /\ r.rc = err
        /\ r.d = IF more THEN op[c].d + 1 ELSE op[c].d
        /\ r.pc = IF more THEN "stop" ELSE "out"
        /\ r.ret = IF more THEN "all" ELSE "fin"
    BY <2>2 DEF Call, CallPcs, StopPcs
  <2> HIDE DEF r
  <2>4. OpType' /\ Others(c) /\ op'[c] = r
    BY <2>1, <2>3 DEF OpType, Others
  <2> QED
    BY <1>3, <2>1, <2>3, <2>4 DEF Returned, LockType
<1>4. CASE c = "storage" /\ op[c].ret = "fin"
  <2> DEFINE err == IF op[c].rc = "OK" THEN rc ELSE op[c].rc
  <2>1. op' = [op EXCEPT ![c].pc = "unlock", ![c].rc = err] /\ UNCHANGED lock
    BY <1>4 DEF Return
  <2>2. op[c] \in Call
    BY DEF OpType
  <2>3. /\ OpType' /\ Others(c) /\ op'[c].pc = "unlock" /\ op'[c].rc = err
        /\ op'[c].d = op[c].d /\ op'[c].ret = op[c].ret
    BY <2>1, <2>2 DEF OpType, Others, Call, CallPcs
  <2> QED
    BY <1>4, <2>1, <2>3 DEF Returned, LockType
<1>5. c = "storage" => op[c].ret \in {"all", "fin"}
  BY DEF Places, StopPcs
<1> QED
  BY <1>1, <1>2, <1>3, <1>4, <1>5

\* A return leaves every caller at a place of its own, with its decks.
LEMMA ReturnPlaces ==
  ASSUME OpType, OpType', LockType, Places, Locks, NEW c \in Callers, NEW rc \in {"OK", "TIMEOUT"},
         op[c].pc \in StopPcs, Returned(c, rc), Others(c), UNCHANGED blocked
  PROVE  Places' /\ Locks'
<1>1. op[c].d \in Decks /\ lock[op[c].d] = c
  BY Holder
<1>2. CASE c = "worker"
  BY <1>1, <1>2 DEF Places, Locks, LockType, Others, Kept, Returned, Callers, StopPcs, LoadPcs, None
<1>3. CASE c = "ui"
  BY <1>1, <1>3 DEF Places, Locks, LockType, Others, Kept, Returned, Callers, StopPcs, LoadPcs, None
<1>4. CASE c = "storage"
  BY <1>1, <1>4 DEF Places, Locks, Others, Returned, Callers, StopPcs
<1> QED
  BY <1>2, <1>3, <1>4 DEF Callers

\* The sweep goes on to the next deck only with a clean one behind it.
LEMMA ReturnSwept ==
  ASSUME IInv, NEW c \in Callers, NEW rc \in {"OK", "TIMEOUT"}, NEW d \in Decks, d = op[c].d,
         op[c].pc \in StopPcs, Others(c), Returned(c, rc),
         \A e \in Decks : Clean(e) => Clean(e)',
         c = "storage" /\ op[c].ret = "all" /\ op[c].rc = "OK" /\ rc = "OK" => Clean(d)'
  PROVE  Swept'
<1>1. CASE c # "storage"
  <2>1. op'["storage"] = op["storage"]
    BY <1>1 DEF Others, Callers
  <2> QED
    BY <2>1 DEF IInv, Swept
<1>2. CASE c = "storage"
  <2>1. CASE op'[c].rc # "OK"
    BY <1>2, <2>1 DEF Swept
  <2>2. CASE op'[c].rc = "OK"
    <3>1. op[c].rc = "OK" /\ rc = "OK"
      BY <1>2, <2>2 DEF Returned
    <3>2. \A e \in Decks : e < d \/ op[c].ret = "fin" => Clean(e)'
      BY <1>2, <3>1 DEF IInv, Swept, StopPcs
    <3>3. CASE op[c].ret = "fin"
      BY <1>2, <3>2, <3>3 DEF Swept
    <3>4. CASE op[c].ret = "all"
      <4>1. \A e \in Decks : e <= d => Clean(e)'
        BY <1>2, <3>1, <3>2, <3>4, DeckFacts
      <4>2. CASE op[c].d + 1 \in Decks
        <5>1. op'[c].pc = "stop" /\ op'[c].ret = "all" /\ op'[c].d = d + 1
          BY <1>2, <3>4, <4>2 DEF Returned
        <5> QED
          BY <1>2, <4>1, <5>1, DeckFacts DEF Swept
      <4>3. CASE op[c].d + 1 \notin Decks
        <5>1. \A e \in Decks : e <= d
          BY <4>3, DeckSessionAssumption DEF Decks
        <5> QED
          BY <1>2, <4>1, <5>1 DEF Swept
      <4> QED
        BY <4>2, <4>3
    <3> QED
      BY <1>2, <3>3, <3>4 DEF Returned
  <2> QED
    BY <2>1, <2>2
<1> QED
  BY <1>1, <1>2

\* A deck with no loader and no decoder has no task.
LEMMA EmptyByCount ==
  ASSUME IInv, NEW d \in Decks, Busy(d) = 0
  PROVE  Empty(d)
<1>1. ~Alive(d, "loader") /\ ~Alive(d, "decode")
  BY DEF Busy
<1> QED
  BY <1>1, TaskFacts DEF Alive, Empty

\* A stop that gave up, or had nothing left to do, and changed nothing but
\* the output returns to its caller.
LEMMA ReturnKeeps ==
  ASSUME IInv, NEW c \in Callers, NEW rc \in {"OK", "TIMEOUT"}, Return(c, rc),
         op[c].pc \in StopPcs, rc = "OK" => op[c].pc \in {"out", "outwait"},
         UNCHANGED <<blocked, loaded, rt, ctx, sem, slot, live, nsid>>
  PROVE  IInv'
<1>0. PICK d \in Decks : d = op[c].d
  BY DEF IInv, Types, OpType, Call
<1>1. OpType' /\ LockType' /\ Others(c) /\ Returned(c, rc)
  BY ReturnOp DEF IInv, Types
<1>2. Types'
  BY <1>1 DEF IInv, Types, FlatType, RtType, CtxType, SlotType, LiveType
<1>3. Places' /\ Locks'
  BY <1>1, ReturnPlaces DEF IInv, Types
<1>4. op'[c].pc \notin {"join", "ajoin", "loader", "decode", "output"}
  BY <1>1 DEF Returned
<1>5. Counted'
  BY <1>1, <1>4, CountFrame DEF IInv, Quieter
<1>7. Phases'
  <2>1. op'[c].pc \in {"free", "out", "outwait", "begin"} /\ op'[c].ret # "fin"
          => rc = "OK" /\ c = "worker" /\ op'[c].d = op[c].d
    BY <1>1 DEF Returned, Kept
  <2>2. rc = "OK" /\ c = "worker" => Empty(op[c].d)
    BY DEF IInv, Phases, Places, StopPcs
  <2> QED
    BY <1>1, <1>4, <2>1, <2>2, PhaseFrame DEF OtherDecks
<1>8. Swept'
  <2>1. \A e \in Decks : Clean(e) => Clean(e)'
    BY DEF Clean, Empty
  <2>2. c = "storage" /\ op[c].ret = "all" /\ op[c].rc = "OK" /\ rc = "OK" => Clean(d)'
    BY <1>0, <2>1 DEF IInv, Swept
  <2> QED
    BY <1>0, <1>1, <2>1, <2>2, ReturnSwept
<1>9. Sessions'
  BY SessionFrame DEF IInv
<1> QED
  BY <1>2, <1>3, <1>5, <1>7, <1>8, <1>9 DEF IInv

\* All tasks are joined and the context is dropped, or the stop gives up.
LEMMA StopJoinedKeeps ==
  ASSUME IInv, NEW c \in Callers, StopJoined(c)
  PROVE  IInv'
<1>0. PICK d \in Decks : d = op[c].d
  BY DEF IInv, Types, OpType, Call
<1>1. /\ op[c].pc = "join" /\ op[c].pc \in StopPcs
      /\ UNCHANGED <<blocked, loaded, sem, slot, live, nsid>>
  BY DEF StopJoined, StopPcs
<1>2. CASE op[c].got # rt[d].started
  <2>1. Return(c, "TIMEOUT") /\ UNCHANGED <<rt, ctx>>
    BY <1>0, <1>2 DEF StopJoined
  <2> QED
    BY <1>1, <2>1, ReturnKeeps
<1>3. CASE op[c].got = rt[d].started
  <2>1. /\ rt' = [rt EXCEPT ![d].started = 0] /\ ctx' = [ctx EXCEPT ![d] = NoCtx]
        /\ Goto(c, "free") /\ UNCHANGED lock
    BY <1>0, <1>3 DEF StopJoined
  <2>2. "free" \in CallPcs /\ OpType
    BY DEF CallPcs, StopPcs, IInv, Types
  <2>3. OpType' /\ Others(c) /\ Kept(c) /\ op'[c].pc = "free"
    BY <2>1, <2>2, GotoOp DEF Kept
  <2>4. /\ RtType' /\ OtherDecks(rt, rt', d) /\ rt'[d].started = 0
        /\ rt'[d].run = rt[d].run
    BY <2>1 DEF IInv, Types, RtType, OtherDecks, ExpectedTasks
  <2>5. CtxType' /\ OtherDecks(ctx, ctx', d)
    BY <2>1, DeckFacts DEF IInv, Types, CtxType, NoCtx, OtherDecks
  <2>6. Busy(d) = 0 /\ sem[d] = 0
    <3>1. /\ Busy(d) \in Nat /\ sem[d] \in Nat /\ rt[d].started \in Nat
      BY DEF IInv, Types, FlatType, RtType, SemMax, ExpectedTasks, Busy
    <3>2. Busy(d) + sem[d] + op[c].got <= rt[d].started
      BY <1>0, <1>1 DEF IInv, Counted, Joining
    <3> QED
      BY <1>3, <3>1, <3>2
  <2>7. Empty(d)
    BY <2>6, EmptyByCount
  <2>8. Types'
    BY <1>1, <2>1, <2>3, <2>4, <2>5 DEF IInv, Types, FlatType, LockType, SlotType, LiveType
  <2>9. Places' /\ Locks'
    BY <1>1, <2>1, <2>2, <2>3, StopMove DEF IInv, StopPcs
  <2>10. Counted'
    <3>1. \A e \in Decks : Busy(e)' = Busy(e)
      BY <1>1 DEF Busy, Alive
    <3>2. \A x \in Callers, e \in Decks : Joining(x, e)' => x # c /\ Joining(x, e) /\ op'[x] = op[x]
      BY <2>3 DEF Joining, Others
    <3>3. \A x \in Callers : x # c => ~Joining(x, d)
      BY <1>0, <1>1, Apart DEF IInv, Types, Joining, StopPcs, LoadPcs
    <3>4. op'["worker"].pc \in {"loader", "decode", "output"} => op'["worker"] = op["worker"]
      BY <2>3 DEF Others, Callers
    <3>5. Full(d)' /\ \A e \in Decks : e # d => (Full(e)' <=> Full(e))
      BY <1>1, <2>4, <2>6, <3>1 DEF Full, OtherDecks
    <3>6. \A e \in Decks : e # d => rt'[e] = rt[e]
      BY <2>4 DEF OtherDecks
    <3> QED
      BY <1>1, <2>4, <2>6, <3>1, <3>2, <3>3, <3>4, <3>5, <3>6 DEF IInv, Counted
  <2>12. Phases'
    BY <1>0, <1>1, <2>3, <2>4, <2>5, <2>7, PhaseFrame DEF Kept, OtherDecks
  <2>13. Swept'
    BY <1>1, <2>3, SweptFrame DEF StopPcs
  <2>14. Sessions'
    BY <1>1, <2>4, <2>5, <2>7, SessionFrame, TaskFacts DEF IInv, Empty, OtherDecks
  <2> QED
    BY <2>8, <2>9, <2>10, <2>12, <2>13, <2>14 DEF IInv
<1> QED
  BY <1>2, <1>3

\* Source and buffer are freed, and the stop returns or ends the output too.
LEMMA StopFreeKeeps ==
  ASSUME IInv, NEW c \in Callers, StopFree(c)
  PROVE  IInv'
<1>0. PICK d \in Decks : d = op[c].d
  BY DEF IInv, Types, OpType, Call
<1>1. /\ op[c].pc = "free" /\ op[c].pc \in StopPcs
      /\ slot' = [slot EXCEPT ![d] = EmptySlot]
      /\ loaded' = [loaded EXCEPT ![d] = FALSE]
      /\ UNCHANGED <<blocked, rt, ctx, sem, live, nsid>>
  BY <1>0 DEF StopFree, StopPcs
<1>2. SlotType' /\ slot'[d] = EmptySlot /\ OtherDecks(slot, slot', d)
  BY <1>1, EmptySlotType DEF IInv, Types, FlatType
<1>3. loaded' \in [Decks -> BOOLEAN]
  BY <1>1 DEF IInv, Types, FlatType
<1>4. Empty(d)
  BY <1>0, <1>1 DEF IInv, Phases, Places, Callers
<1>5. Sessions'
  BY <1>1, <1>2, <1>4, SessionFrame, TaskFacts DEF IInv, Empty, OtherDecks
<1>6. Clean(d)' /\ \A e \in Decks : Clean(e) => Clean(e)'
  BY <1>1, <1>2, <1>4 DEF Clean, Empty, EmptySlot, OtherDecks
<1>7. OtherDecks(rt, rt', op[c].d) /\ OtherDecks(ctx, ctx', op[c].d)
  BY <1>1 DEF OtherDecks
<1>8. CASE Goto(c, "out") /\ UNCHANGED lock
  <2>1. "out" \in CallPcs /\ OpType
    BY DEF CallPcs, StopPcs, IInv, Types
  <2>2. OpType' /\ Others(c) /\ Kept(c) /\ op'[c].pc = "out"
    BY <1>8, <2>1, GotoOp DEF Kept
  <2>3. Types'
    BY <1>1, <1>2, <1>3, <1>8, <2>2 DEF IInv, Types, FlatType, LockType, RtType, CtxType, LiveType
  <2>4. Places' /\ Locks'
    BY <1>1, <1>8, <2>1, <2>2, StopMove DEF IInv, StopPcs
  <2>5. Counted'
    BY <1>1, <2>2, CountFrame DEF IInv, Quieter
  <2>7. Phases'
    BY <1>0, <1>1, <1>2, <1>4, <1>7, <2>2, PhaseFrame DEF Kept
  <2>8. Swept'
    <3>1. CASE c = "storage"
      BY <1>0, <1>1, <1>6, <2>2, <3>1 DEF IInv, Swept, Kept, StopPcs, Places
    <3>2. CASE c # "storage"
      BY <1>6, <2>2, <3>2 DEF IInv, Swept, Others, Callers
    <3> QED
      BY <3>1, <3>2
  <2> QED
    BY <1>5, <2>3, <2>4, <2>5, <2>7, <2>8 DEF IInv
<1>9. CASE Return(c, "OK")
  <2>1. OpType' /\ LockType' /\ Others(c) /\ Returned(c, "OK")
    BY <1>1, <1>9, ReturnOp DEF IInv, Types
  <2>2. op'[c].pc \notin {"join", "ajoin", "loader", "decode", "output"}
    BY <2>1 DEF Returned
  <2>3. Types'
    BY <1>1, <1>2, <1>3, <2>1 DEF IInv, Types, FlatType, RtType, CtxType, LiveType
  <2>4. Places' /\ Locks'
    BY <1>1, <2>1, ReturnPlaces DEF IInv, Types
  <2>5. Counted'
    BY <1>1, <2>1, <2>2, CountFrame DEF IInv, Quieter
  <2>7. Phases'
    <3>1. op'[c].pc \in {"free", "out", "outwait", "begin"} /\ op'[c].ret # "fin" => op'[c].d = op[c].d
      BY <2>1 DEF Returned, Kept
    <3> QED
      BY <1>0, <1>1, <1>2, <1>4, <1>7, <2>1, <2>2, <3>1, PhaseFrame
  <2>8. Swept'
    BY <1>0, <1>1, <1>6, <2>1, ReturnSwept
  <2> QED
    BY <1>5, <2>3, <2>4, <2>5, <2>7, <2>8 DEF IInv
<1> QED
  BY <1>8, <1>9 DEF StopFree

\* audio_output_service_stop and the wait for the output task.
LEMMA OutStopKeeps ==
  ASSUME IInv, NEW c \in Callers, OutStop(c)
  PROVE  IInv'
<1>1. /\ op[c].pc = "out" /\ op[c].pc \in StopPcs
      /\ UNCHANGED <<blocked, loaded, rt, ctx, sem, slot, live, nsid>>
  BY DEF OutStop, StopPcs
<1>2. CASE Return(c, "OK")
  BY <1>1, <1>2, ReturnKeeps
<1>3. CASE Goto(c, "outwait") /\ UNCHANGED lock
  <2>1. "outwait" \in CallPcs /\ OpType
    BY DEF CallPcs, StopPcs, IInv, Types
  <2>2. OpType' /\ Others(c) /\ Kept(c) /\ op'[c].pc = "outwait"
    BY <1>3, <2>1, GotoOp DEF Kept
  <2>3. Types'
    BY <1>1, <1>3, <2>2 DEF IInv, Types, FlatType, LockType, RtType, CtxType, SlotType, LiveType
  <2>4. Places' /\ Locks'
    BY <1>1, <1>3, <2>1, <2>2, StopMove DEF IInv, StopPcs
  <2>5. Counted'
    BY <1>1, <2>2, CountFrame DEF IInv, Quieter
  <2>7. Phases'
    <3>1. op'[c].ret # "fin" => Empty(op'[c].d)
      BY <1>1, <2>2 DEF IInv, Phases, Kept
    <3> QED
      BY <1>1, <2>2, <3>1, PhaseFrame DEF OtherDecks
  <2>8. Swept'
    BY <1>1, <2>2, SweptFrame DEF StopPcs
  <2>9. Sessions'
    BY <1>1, SessionFrame DEF IInv
  <2> QED
    BY <2>3, <2>4, <2>5, <2>7, <2>8, <2>9 DEF IInv
<1> QED
  BY <1>2, <1>3 DEF OutStop

\* The output's exit signal arrives, or the wait for it times out.
LEMMA OutWaitKeeps ==
  ASSUME IInv, NEW c \in Callers, OutWait(c)
  PROVE  IInv'
<1>1. /\ op[c].pc = "outwait" /\ op[c].pc \in StopPcs
      /\ UNCHANGED <<blocked, loaded, rt, ctx, sem, slot, live, nsid>>
  BY DEF OutWait, StopPcs
<1>2. Return(c, "OK") \/ Return(c, "TIMEOUT")
  BY DEF OutWait
<1> QED
  BY <1>1, <1>2, ReturnKeeps

-----------------------------------------------------------------------------
(* The callers: entering and leaving the engine.                           *)

\* A caller that takes or gives a lock leaves the decks as they are.
LEMMA QuietFrame ==
  ASSUME IInv, NEW c \in Callers, Others(c), OpType', LockType', blocked' \in BOOLEAN,
         UNCHANGED <<loaded, rt, ctx, sem, slot, live, nsid>>,
         op'[c].pc \in {"idle", "admit", "lock", "stop", "unlock", "held", "failed"}
  PROVE  /\ Types' /\ Counted' /\ Phases' /\ Sessions'
         /\ \A d : Clean(d)' <=> Clean(d)
<1>1. Types'
  BY DEF IInv, Types, FlatType, RtType, CtxType, SlotType, LiveType
<1>2. Counted'
  BY CountFrame DEF IInv, Quieter
<1>3. \A x \in Callers : op'[x].pc \notin {"idle", "admit", "lock", "stop", "unlock", "held", "failed"}
                           => op'[x] = op[x]
  BY DEF Others
<1>5. \A d, k : (Empty(d)' <=> Empty(d)) /\ (Alive(d, k)' <=> Alive(d, k))
  BY DEF Empty, Alive
<1>6. Phases'
  BY <1>3, <1>5 DEF IInv, Phases, Callers
<1>7. Sessions'
  BY SessionFrame DEF IInv
<1> QED
  BY <1>1, <1>2, <1>5, <1>6, <1>7 DEF Clean

\* A call that has ended.
LEMMA IdleCall == Idle \in Call /\ Idle.d = 0
  BY DeckFacts DEF Idle, Call, CallPcs, ExpectedTasks

\* What a caller's new record says, once it is the caller's.
LEMMA EnterOp ==
  ASSUME IInv, NEW c \in Callers, NEW d \in Decks, NEW r \in {"load", "stop"},
         NEW p \in {"admit", "stop"},
         op' = [op EXCEPT ![c] = [Idle EXCEPT !.pc = p, !.d = d, !.ret = r]]
  PROVE  /\ OpType' /\ Others(c)
         /\ op'[c].pc = p /\ op'[c].d = d /\ op'[c].ret = r
<1> DEFINE o == [Idle EXCEPT !.pc = p, !.d = d, !.ret = r]
<1>1. o \in Call /\ o.pc = p /\ o.d = d /\ o.ret = r
  BY IdleCall DEF Call, CallPcs, StopPcs
<1> HIDE DEF o
<1>2. op' = [op EXCEPT ![c] = o]
  BY DEF o
<1> QED
  BY <1>1, <1>2, SetOp DEF IInv, Types

\* A LOAD passes admission and holds it.
LEMMA LoadAdmitKeeps ==
  ASSUME IInv, NEW d \in Decks, LoadAdmit(d)
  PROVE  IInv'
<1>1. /\ op["worker"].pc = "idle" /\ ~blocked /\ "worker" \in Callers
      /\ UNCHANGED <<blocked, lock, loaded, rt, ctx, sem, slot, live, nsid>>
  BY DEF LoadAdmit, Callers
<1>2. /\ OpType' /\ Others("worker") /\ op'["worker"].pc = "admit"
      /\ op'["worker"].d = d /\ op'["worker"].ret = "load"
  <2>1. PICK c \in Callers, r \in {"load", "stop"}, q \in {"admit", "stop"} :
           c = "worker" /\ r = "load" /\ q = "admit"
    BY <1>1
  <2>2. op' = [op EXCEPT ![c] = [Idle EXCEPT !.pc = q, !.d = d, !.ret = r]]
    BY <2>1 DEF LoadAdmit
  <2> QED
    BY <2>1, <2>2, EnterOp
<1>3. /\ Types' /\ Counted' /\ Phases' /\ Sessions'
      /\ \A e : Clean(e)' <=> Clean(e)
  <2>1. LockType' /\ blocked' \in BOOLEAN
    BY <1>1 DEF IInv, Types, LockType, FlatType
  <2> QED
    BY <1>1, <1>2, <2>1, QuietFrame
<1>4. Places' /\ Locks'
  BY <1>1, <1>2 DEF IInv, Places, Locks, Others, Callers
<1>5. Swept'
  BY <1>2, <1>3 DEF IInv, Swept, Others, Callers
<1> QED
  BY <1>3, <1>4, <1>5 DEF IInv

\* A caller that takes a free deck leaves the other decks to their holders.
LEMMA TakeLocks ==
  ASSUME IInv, NEW c \in {"worker", "ui"}, NEW d \in Decks,
         lock[d] = None, lock' = [lock EXCEPT ![d] = c], Others(c),
         op[c].pc \in {"idle", "admit"}, op'[c].pc = "stop", op'[c].d = d
  PROVE  LockType' /\ Locks'
<1>1. c \in Callers /\ op'["storage"] = op["storage"]
  BY DEF Callers, Others
<1>2. LockType' /\ lock'[d] = c /\ OtherDecks(lock, lock', d)
  BY <1>1 DEF IInv, Types, LockType, OtherDecks
<1>3. \A e \in Decks : e = d => lock'[e] = c /\ lock[e] = None
  BY <1>2
<1>4. CASE c = "worker"
  BY <1>1, <1>2, <1>3, <1>4 DEF IInv, Locks, Others, OtherDecks, Callers, None
<1>5. CASE c = "ui"
  <2>1. op["ui"].pc = "idle"
    BY <1>5 DEF IInv, Places, StopPcs
  <2> QED
    BY <1>1, <1>2, <1>3, <1>5, <2>1 DEF IInv, Locks, Others, OtherDecks, Callers, None
<1> QED
  BY <1>2, <1>4, <1>5

\* The admitted LOAD has its deck.
LEMMA LoadEnterKeeps ==
  ASSUME IInv, LoadEnter
  PROVE  IInv'
<1>0. PICK d \in Decks : d = op["worker"].d
  BY DEF IInv, Types, OpType, Call, Callers
<1>1. /\ op["worker"].pc = "admit" /\ lock[d] = None /\ "worker" \in Callers
      /\ lock' = [lock EXCEPT ![d] = "worker"]
      /\ UNCHANGED <<blocked, loaded, rt, ctx, sem, slot, live, nsid>>
  BY <1>0 DEF LoadEnter, Callers
<1>2. OpType' /\ Others("worker") /\ op'["worker"].pc = "stop" /\ Kept("worker")
  <2>1. "stop" \in CallPcs /\ Goto("worker", "stop")
    BY DEF CallPcs, StopPcs, LoadEnter
  <2> QED
    BY <1>1, <2>1, GotoOp DEF IInv, Types, Kept
<1>3. LockType' /\ Locks' /\ blocked' \in BOOLEAN
  BY <1>0, <1>1, <1>2, TakeLocks DEF Kept, IInv, Types, FlatType
<1>4. /\ Types' /\ Counted' /\ Phases' /\ Sessions'
      /\ \A e : Clean(e)' <=> Clean(e)
  BY <1>1, <1>2, <1>3, QuietFrame
<1>5. Places'
  BY <1>1, <1>2 DEF IInv, Places, Others, Kept, Callers, StopPcs
<1>6. Swept'
  BY <1>2, <1>4 DEF IInv, Swept, Others, Callers
<1> QED
  BY <1>3, <1>4, <1>5, <1>6 DEF IInv

\* A STOP has its deck.
LEMMA StopKeeps ==
  ASSUME IInv, NEW d \in Decks, Stop(d)
  PROVE  IInv'
<1>1. /\ op["ui"].pc = "idle" /\ lock[d] = None /\ "ui" \in Callers
      /\ lock' = [lock EXCEPT ![d] = "ui"]
      /\ UNCHANGED <<blocked, loaded, rt, ctx, sem, slot, live, nsid>>
  BY DEF Stop, Callers
<1>2. /\ OpType' /\ Others("ui") /\ op'["ui"].pc = "stop"
      /\ op'["ui"].d = d /\ op'["ui"].ret = "stop"
  <2>1. PICK c \in Callers, r \in {"load", "stop"}, q \in {"admit", "stop"} :
           c = "ui" /\ r = "stop" /\ q = "stop"
    BY <1>1
  <2>2. op' = [op EXCEPT ![c] = [Idle EXCEPT !.pc = q, !.d = d, !.ret = r]]
    BY <2>1 DEF Stop
  <2> QED
    BY <2>1, <2>2, EnterOp
<1>3. LockType' /\ Locks' /\ blocked' \in BOOLEAN
  BY <1>1, <1>2, TakeLocks DEF IInv, Types, FlatType
<1>4. /\ Types' /\ Counted' /\ Phases' /\ Sessions'
      /\ \A e : Clean(e)' <=> Clean(e)
  BY <1>1, <1>2, <1>3, QuietFrame
<1>5. Places'
  BY <1>1, <1>2 DEF IInv, Places, Others, Callers, StopPcs
<1>6. Swept'
  BY <1>2, <1>4 DEF IInv, Swept, Others, Callers
<1> QED
  BY <1>3, <1>4, <1>5, <1>6 DEF IInv

\* The removal closes admission and waits for the decks one by one.
LEMMA SuspendKeeps ==
  ASSUME IInv, Suspend
  PROVE  IInv'
<1> DEFINE o == [Idle EXCEPT !.pc = "lock", !.ret = "all"]
<1>1. o \in Call /\ o.pc = "lock" /\ o.ret = "all" /\ o.d = 0
  BY IdleCall DEF Call, CallPcs
<1>2. /\ op["storage"].pc = "idle" /\ op["worker"].pc # "admit"
      /\ blocked' = TRUE /\ op' = [op EXCEPT !["storage"] = o]
      /\ UNCHANGED <<lock, loaded, rt, ctx, sem, slot, live, nsid>>
  BY DEF Suspend, AdmissionFree
<1>3. OpType' /\ Others("storage") /\ op'["storage"] = o
  <2> HIDE DEF o
  <2> QED
    BY <1>1, <1>2 DEF IInv, Types, OpType, Others, Callers
<1>4. /\ Types' /\ Counted' /\ Phases' /\ Sessions'
  <2>1. LockType' /\ "storage" \in Callers
    BY <1>2 DEF IInv, Types, LockType, Callers
  <2> QED
    BY <1>1, <1>2, <1>3, <2>1, QuietFrame
<1>5. Places'
  BY <1>1, <1>2, <1>3 DEF IInv, Places, Others, Callers, StopPcs
<1>6. Locks'
  BY <1>1, <1>2, <1>3, DeckFacts DEF IInv, Locks, Others, Callers, StopPcs
<1>7. Swept'
  BY <1>1, <1>3 DEF Swept, StopPcs
<1> QED
  BY <1>4, <1>5, <1>6, <1>7 DEF IInv

\* The storage task takes one more deck, or has them all and sweeps.
LEMMA SuspendLockKeeps ==
  ASSUME IInv, SuspendLock
  PROVE  IInv'
<1>0. PICK d \in Decks : d = op["storage"].d
  BY DEF IInv, Types, OpType, Call, Callers
<1>1. /\ op["storage"].pc = "lock" /\ lock[d] = None /\ op["storage"].ret = "all"
      /\ lock' = [lock EXCEPT ![d] = "storage"]
      /\ UNCHANGED <<blocked, loaded, rt, ctx, sem, slot, live, nsid>>
  BY <1>0 DEF SuspendLock, IInv, Places
<1>2. /\ OpType' /\ Others("storage") /\ op'["storage"].ret = "all"
      /\ \/ d + 1 \in Decks /\ op'["storage"].pc = "lock" /\ op'["storage"].d = d + 1
         \/ d + 1 \notin Decks /\ op'["storage"].pc = "stop" /\ op'["storage"].d = 0
  <2>1. op \in [Callers -> Call] /\ "storage" \in Callers
    BY DEF IInv, Types, OpType, Callers
  <2>2. CASE d + 1 \in Decks
    <3>1. PICK e \in Decks : e = d + 1
      BY <2>2
    <3>2. op' = [op EXCEPT !["storage"].d = e]
      BY <1>0, <2>2, <3>1 DEF SuspendLock
    <3>3. OpType' /\ Others("storage") /\ op'["storage"].ret = op["storage"].ret
          /\ op'["storage"].pc = op["storage"].pc /\ op'["storage"].d = e
      BY <2>1, <3>2 DEF OpType, Call, Others
    <3> QED
      BY <1>1, <2>2, <3>1, <3>3
  <2>3. CASE d + 1 \notin Decks
    <3>1. PICK e \in Decks, p \in CallPcs : e = 0 /\ p = "stop"
      BY DeckFacts DEF CallPcs, StopPcs
    <3>2. op' = [op EXCEPT !["storage"].d = e, !["storage"].pc = p]
      BY <1>0, <2>3, <3>1 DEF SuspendLock
    <3>0. op["storage"] \in Call
      BY <2>1
    <3>3. PICK n \in Call : n = [op["storage"] EXCEPT !.d = e, !.pc = p]
      BY <3>0 DEF Call
    <3>4. n.ret = op["storage"].ret /\ n.pc = p /\ n.d = e
      BY <3>0, <3>3 DEF Call
    <3>5. op' = [op EXCEPT !["storage"] = n]
      BY <3>2, <3>3
    <3>6. OpType' /\ Others("storage") /\ op'["storage"] = n
      BY <2>1, <3>5, SetOp DEF OpType
    <3> QED
      BY <1>1, <2>3, <3>1, <3>4, <3>6
  <2> QED
    BY <2>2, <2>3
<1>3. LockType' /\ lock'[d] = "storage" /\ OtherDecks(lock, lock', d)
      /\ blocked' \in BOOLEAN /\ "storage" \in Callers
  BY <1>1 DEF IInv, Types, LockType, FlatType, OtherDecks, Callers
<1>4. /\ Types' /\ Counted' /\ Phases' /\ Sessions'
  BY <1>1, <1>2, <1>3, QuietFrame
<1>5. Places'
  BY <1>1, <1>2 DEF IInv, Places, Others, Callers, StopPcs
<1>6. op'["worker"] = op["worker"] /\ op'["ui"] = op["ui"]
  BY <1>2 DEF Others, Callers
<1>7. ASSUME NEW e \in Decks
      PROVE  /\ lock'[e] = "worker" <=> op'["worker"].pc \notin {"idle", "admit"} /\ op'["worker"].d = e
             /\ lock'[e] = "ui" <=> op'["ui"].pc # "idle" /\ op'["ui"].d = e
  <2>1. CASE e = d
    BY <1>1, <1>3, <1>6, <2>1 DEF IInv, Locks, None
  <2>2. CASE e # d
    BY <1>3, <1>6, <2>2 DEF IInv, Locks, OtherDecks
  <2> QED
    BY <2>1, <2>2
<1>8. \A e \in Decks : lock'[e] = "storage" <=> e <= d
  <2>1. \A e \in Decks : lock[e] = "storage" <=> e < d
    BY <1>0, <1>1 DEF IInv, Locks, StopPcs
  <2> QED
    BY <1>3, <2>1, DeckFacts DEF OtherDecks
<1>9. Locks'
  <2>1. CASE d + 1 \in Decks
    BY <1>2, <1>7, <1>8, <2>1, DeckFacts DEF Locks, StopPcs
  <2>2. CASE d + 1 \notin Decks
    <3>1. \A e \in Decks : e <= d
      BY <2>2, DeckSessionAssumption DEF Decks
    <3> QED
      BY <1>2, <1>7, <1>8, <2>2, <3>1 DEF Locks, StopPcs
  <2> QED
    BY <2>1, <2>2
<1>10. Swept'
  <2>1. \A e \in Decks : ~(e < 0)
    BY DeckFacts
  <2>2. CASE op'["storage"].pc = "lock"
    BY <2>2 DEF Swept, StopPcs
  <2>3. CASE op'["storage"].pc = "stop" /\ op'["storage"].d = 0 /\ op'["storage"].ret = "all"
    BY <2>1, <2>3 DEF Swept
  <2> QED
    BY <1>2, <2>2, <2>3
<1> QED
  BY <1>4, <1>5, <1>9, <1>10 DEF IInv

\* The sweep gives the decks back, whether it succeeded or not.
LEMMA SuspendEndKeeps ==
  ASSUME IInv, SuspendEnd
  PROVE  IInv'
<1>1. /\ op["storage"].pc = "unlock" /\ "storage" \in Callers
      /\ lock' = [d \in Decks |-> IF lock[d] = "storage" THEN None ELSE lock[d]]
      /\ UNCHANGED <<blocked, loaded, rt, ctx, sem, slot, live, nsid>>
  BY DEF SuspendEnd, Callers
<1>2. OpType' /\ Others("storage") /\ op'["storage"].pc \in {"held", "failed"}
  <2>1. PICK p \in CallPcs : p \in {"held", "failed"} /\ Goto("storage", p)
    BY DEF SuspendEnd, CallPcs
  <2> QED
    BY <1>1, <2>1, GotoOp DEF IInv, Types
<1>3. LockType' /\ blocked' \in BOOLEAN
  BY <1>1 DEF IInv, Types, LockType, FlatType
<1>4. /\ Types' /\ Counted' /\ Phases' /\ Sessions'
  BY <1>1, <1>2, <1>3, QuietFrame
<1>5. Places'
  <2>1. op'["worker"] = op["worker"] /\ op'["ui"] = op["ui"]
    BY <1>2 DEF Others, Callers
  <2> QED
    BY <1>1, <1>2, <2>1 DEF IInv, Places, StopPcs
<1>6. Locks'
  BY <1>1, <1>2 DEF IInv, Locks, Others, Callers, StopPcs, None
<1>7. Swept'
  BY <1>2 DEF Swept, StopPcs
<1> QED
  BY <1>4, <1>5, <1>6, <1>7 DEF IInv

\* Admission is open again: the removal is over, or its sweep failed.
LEMMA ResumeKeeps ==
  ASSUME IInv, Resume
  PROVE  IInv'
<1>1. /\ op["storage"].pc \in {"held", "failed"} /\ blocked' = FALSE
      /\ UNCHANGED <<lock, loaded, rt, ctx, sem, slot, live, nsid>>
      /\ op' = [op EXCEPT !["storage"] = Idle]
  BY DEF Resume
<1>2. "storage" \in Callers /\ LockType' /\ OpType
  BY <1>1 DEF IInv, Types, LockType, Callers
<1>3. OpType' /\ Others("storage") /\ op'["storage"].pc = "idle"
  BY <1>1, <1>2, IdleOp
<1>4. /\ Types' /\ Counted' /\ Phases' /\ Sessions'
  BY <1>1, <1>2, <1>3, QuietFrame
<1>5. Places'
  BY <1>1, <1>3 DEF IInv, Places, Others, Callers, StopPcs
<1>6. Locks'
  BY <1>1, <1>3 DEF IInv, Locks, Others, Callers, StopPcs
<1>7. Swept'
  BY <1>3 DEF Swept, StopPcs
<1> QED
  BY <1>4, <1>5, <1>6, <1>7 DEF IInv

-----------------------------------------------------------------------------
(* The callers: loading a deck.                                            *)

\* While the worker loads, the sweep has not begun.
LEMMA NoSweep ==
  ASSUME IInv, op["worker"].pc # "idle"
  PROVE  op["storage"].pc \notin StopPcs \cup {"unlock"}
<1>1. CASE op["worker"].pc = "admit"
  BY <1>1 DEF IInv, Places, StopPcs
<1>2. CASE op["worker"].pc # "admit"
  <2>1. PICK d \in Decks : d = op["worker"].d
    BY WorkerDeck DEF IInv, Types
  <2>2. lock[d] = "worker"
    BY <1>2, <2>1 DEF IInv, Locks
  <2> QED
    BY <2>2 DEF IInv, Locks
<1> QED
  BY <1>1, <1>2

\* The worker's moves inside a load, with its deck in its hands.
LEMMA LoadMove ==
  ASSUME Places, Locks, Others("worker"), op'["worker"].d = op["worker"].d,
         op'["worker"].ret = op["worker"].ret,
         op["worker"].pc \notin {"idle", "admit"}, op'["worker"].pc \in StopPcs \cup LoadPcs,
         UNCHANGED <<blocked, lock>>
  PROVE  Places' /\ Locks'
  BY DEF Places, Locks, Others, Callers, StopPcs, LoadPcs

\* A deck that only the worker uses: nobody else joins there or waits for it
\* to be empty.
LEMMA WorkerAlone ==
  ASSUME IInv, NEW d \in Decks, d = op["worker"].d,
         op["worker"].pc \in LoadPcs, NEW x \in Callers, x # "worker"
  PROVE  /\ ~Joining(x, d)
         /\ op[x].pc \in StopPcs => op[x].d # d
<1>1. op[x].pc \in StopPcs \cup LoadPcs => op[x].d # d
  BY Apart DEF IInv, Types, Callers
<1> QED
  BY <1>1 DEF Joining, StopPcs, LoadPcs

\* The session begins on an empty deck: runtime, context, signals and slot
\* are fresh.
LEMMA LoadBeginKeeps ==
  ASSUME IInv, LoadBegin
  PROVE  IInv'
<1>0. PICK d \in Decks : d = op["worker"].d
  BY WorkerDeck DEF IInv, Types
<1>1. /\ op["worker"].pc = "begin"
      /\ rt' = [rt EXCEPT ![d] = [run |-> TRUE, started |-> 0, gen |-> @.gen + 1]]
      /\ ctx' = [ctx EXCEPT ![d] = [gen |-> rt[d].gen + 1, deck |-> d]]
      /\ slot' = [slot EXCEPT ![d] = EmptySlot]
      /\ sem' = [sem EXCEPT ![d] = 0]
      /\ loaded' = [loaded EXCEPT ![d] = TRUE]
      /\ nsid' = nsid + 1 /\ Goto("worker", "loader")
      /\ UNCHANGED <<blocked, lock, live>>
  BY <1>0 DEF LoadBegin
<1>2. "worker" \in Callers /\ "loader" \in CallPcs /\ "begin" \in LoadPcs /\ OpType
  BY DEF Callers, CallPcs, LoadPcs, IInv, Types
<1>3. OpType' /\ Others("worker") /\ Kept("worker") /\ op'["worker"].pc = "loader"
  BY <1>1, <1>2, GotoOp DEF Kept
<1>4. RtType' /\ OtherDecks(rt, rt', d) /\ rt'[d].started = 0
  BY <1>1 DEF IInv, Types, RtType, OtherDecks, ExpectedTasks
<1>5. CtxType' /\ OtherDecks(ctx, ctx', d) /\ ctx'[d].deck = d
  <2>1. rt[d].gen + 1 \in Nat
    BY DEF IInv, Types, RtType
  <2> QED
    BY <1>1, <2>1 DEF IInv, Types, CtxType, OtherDecks
<1>6. SlotType' /\ OtherDecks(slot, slot', d) /\ slot'[d] = EmptySlot
  <2>1. nsid \in Nat
    BY DEF IInv, Types, FlatType
  <2>2. \A e \in Decks : slot[e] \in [src : 0 .. nsid + 1, buf : 0 .. nsid + 1, done : BOOLEAN]
    BY <2>1 DEF IInv, Types, SlotType
  <2>3. EmptySlot \in [src : 0 .. nsid + 1, buf : 0 .. nsid + 1, done : BOOLEAN]
    BY <2>1 DEF EmptySlot
  <2> QED
    BY <1>1, <2>2, <2>3 DEF IInv, Types, SlotType, OtherDecks
<1>7. FlatType' /\ LockType' /\ LiveType' /\ OtherDecks(sem, sem', d) /\ sem'[d] = 0
  BY <1>1 DEF IInv, Types, FlatType, LockType, LiveType, OtherDecks, SemMax
<1>8. Types'
  BY <1>3, <1>4, <1>5, <1>6, <1>7 DEF Types
<1>9. Empty(d)
  BY <1>0, <1>1 DEF IInv, Phases, Places, Callers
<1>10. Places' /\ Locks'
  BY <1>1, <1>3, LoadMove DEF IInv, Kept, LoadPcs
<1>11. Counted'
  <2>1. \A e \in Decks : Busy(e)' = Busy(e)
    BY <1>1 DEF Busy, Alive
  <2>2. Busy(d) = 0
    BY <1>9 DEF Busy, Alive, Empty
  <2>3. \A x \in Callers, e \in Decks :
           Joining(x, e)' => e # d /\ Joining(x, e) /\ op'[x] = op[x]
    BY <1>0, <1>1, <1>2, <1>3, WorkerAlone DEF Joining, Others
  <2>4. \A e \in Decks : e # d => rt'[e] = rt[e] /\ (Full(e)' <=> Full(e))
    BY <1>4, <1>7, <2>1 DEF Full, OtherDecks
  <2>5. Full(d)' /\ op'["worker"].d = d
    BY <1>0, <1>3, <1>4, <1>7, <2>1, <2>2 DEF Full, Kept
  <2> QED
    BY <1>7, <2>1, <2>3, <2>4, <2>5 DEF IInv, Counted, OtherDecks
<1>13. Phases'
  <2>1. \A e, k : (Empty(e)' <=> Empty(e)) /\ (Alive(e, k)' <=> Alive(e, k))
    BY <1>1 DEF Empty, Alive
  <2>2. ~slot'[d].done /\ nsid' > 0
    BY <1>1, <1>6 DEF EmptySlot, IInv, Types, FlatType
  <2>3. \A x \in Callers : op'[x].pc \in {"free", "out", "outwait", "begin"} /\ op'[x].ret # "fin" =>
          Empty(op'[x].d)
    BY <1>3, <2>1 DEF Others, IInv, Phases
  <2>4. op'["worker"].d = d
    BY <1>0, <1>3 DEF Kept
  <2>5. \A t \in live : t.d # d
    BY <1>9 DEF Empty
  <2> QED
    BY <1>1, <1>3, <1>4, <1>5, <1>9, <2>1, <2>2, <2>3, <2>4, <2>5 DEF Phases
<1>14. Swept'
  BY <1>1, <1>3, NoSweep DEF Swept, Others, Callers
<1>15. Sessions'
  BY <1>1, <1>4, <1>5, <1>6, <1>9, SessionFrame, TaskFacts DEF IInv, Empty, OtherDecks
<1> QED
  BY <1>8, <1>10, <1>11, <1>13, <1>14, <1>15 DEF IInv

\* A task is created, or there is no memory for it.
LEMMA LoadSpawnKeeps ==
  ASSUME IInv, LoadSpawn
  PROVE  IInv'
<1>0. PICK d \in Decks : d = op["worker"].d
  BY WorkerDeck DEF IInv, Types
<1>1. PICK k \in Kinds : k = op["worker"].pc
  BY DEF LoadSpawn, Kinds
<1> DEFINE n == [d |-> d, k |-> k, sid |-> nsid, pc |-> "start"]
<1>2. /\ Goto("worker", IF k = "loader" THEN "decode" ELSE "output")
      /\ \/ live' = live \cup {n} /\ rt' = [rt EXCEPT ![d].started = @ + 1]
         \/ UNCHANGED <<live, rt>>
      /\ UNCHANGED <<blocked, lock, loaded, ctx, sem, slot, nsid>>
  BY <1>0, <1>1 DEF LoadSpawn
<1>3. /\ op["worker"].pc \in LoadPcs /\ op["worker"].pc # "idle" /\ "worker" \in Callers /\ OpType
  BY <1>1 DEF Kinds, LoadPcs, Callers, IInv, Types
<1>4. /\ OpType' /\ Others("worker") /\ Kept("worker")
      /\ op'["worker"].pc = IF k = "loader" THEN "decode" ELSE "output"
  <2>1. (IF k = "loader" THEN "decode" ELSE "output") \in CallPcs
    BY DEF CallPcs, LoadPcs
  <2>2. PICK p \in CallPcs : p = IF k = "loader" THEN "decode" ELSE "output"
    BY <2>1
  <2> QED
    BY <1>2, <1>3, <2>2, GotoOp DEF Kept
<1>5. /\ nsid \in Nat /\ nsid > 0 /\ ctx[d].deck = d
      /\ \A t \in live : t.d = d => t.sid = nsid
      /\ k = "loader" => Empty(d) /\ rt[d].started = 0 /\ ~slot[d].done
      /\ k = "decode" => rt[d].started <= 1
      /\ rt[d].run /\ slot[d].done => slot[d].buf = nsid
      /\ ~Alive(d, k)
      /\ ~Alive(d, "decode")
  <2>1. nsid \in Nat
    BY DEF IInv, Types, FlatType
  <2>2. CASE k = "loader"
    BY <1>0, <1>1, <2>1, <2>2 DEF IInv, Phases, Empty, Alive
  <2>3. CASE k = "decode"
    BY <1>0, <1>1, <2>1, <2>3 DEF IInv, Phases
  <2> QED
    BY <2>2, <2>3 DEF Kinds
<1>6. n \in Task /\ n.d = d /\ n.k = k /\ n.sid = nsid /\ n.pc = "start"
  BY <1>5 DEF Task, Kinds, LoaderPcs, DecodePcs
<1>7. Places' /\ Locks'
  BY <1>2, <1>3, <1>4, LoadMove DEF IInv, Kept, LoadPcs
<1>9. Swept'
  BY <1>3, <1>4, NoSweep DEF Swept, Others, Callers
<1>10. /\ RtType' /\ OtherDecks(rt, rt', d)
       /\ rt'[d].run = rt[d].run
       /\ \/ live' = live \cup {n} /\ rt'[d].started = rt[d].started + 1
          \/ live' = live /\ rt'[d].started = rt[d].started
  <2>1. CASE live' = live \cup {n} /\ rt' = [rt EXCEPT ![d].started = @ + 1]
    <3>1. rt[d].started + 1 \in 0 .. 2
      BY <1>5 DEF IInv, Types, RtType, Kinds, ExpectedTasks
    <3> QED
      BY <2>1, <3>1 DEF IInv, Types, RtType, OtherDecks, ExpectedTasks
  <2>2. CASE UNCHANGED <<live, rt>>
    BY <2>2 DEF IInv, Types, RtType, OtherDecks
  <2> QED
    BY <1>2, <2>1, <2>2
<1> HIDE DEF n
<1>11. Types'
  BY <1>2, <1>4, <1>5, <1>6, <1>10 DEF IInv, Types, FlatType, LockType, CtxType, SlotType, LiveType
<1>12. \A v \in live' : v \in live \/ (v = n /\ live' = live \cup {n})
  BY <1>10
<1>13. Counted'
  <2>1. \A e \in Decks : e # d => Busy(e)' = Busy(e)
    BY <1>6, <1>10 DEF Busy, Alive
  <2>2. \A e \in Decks : Busy(e) \in Nat /\ sem[e] \in Nat /\ rt[e].started \in Nat
    BY DEF Busy, IInv, Types, FlatType, RtType, SemMax, ExpectedTasks
  <2>3. Full(d)'
    <3>1. CASE live' = live \cup {n} /\ rt'[d].started = rt[d].started + 1
      <4>1. Alive(d, k)' /\ \A j : j # k => (Alive(d, j)' <=> Alive(d, j))
        BY <1>6, <3>1 DEF Alive
      <4>2. Busy(d)' = Busy(d) + 1
        BY <1>5, <4>1 DEF Busy, Kinds
      <4>3. Busy(d) + sem[d] <= rt[d].started
        BY <1>0, <1>1 DEF IInv, Counted, Full, Kinds
      <4> QED
        BY <1>2, <2>2, <3>1, <4>2, <4>3 DEF Full
    <3>2. CASE live' = live /\ rt'[d].started = rt[d].started
      <4>1. Full(d)
        BY <1>0, <1>1 DEF IInv, Counted, Kinds
      <4>2. Busy(d)' = Busy(d)
        BY <3>2 DEF Busy, Alive
      <4> QED
        BY <1>2, <3>2, <4>1, <4>2 DEF Full
    <3> QED
      BY <1>10, <3>1, <3>2
  <2>4. \A x \in Callers, e \in Decks :
           Joining(x, e)' => e # d /\ Joining(x, e) /\ op'[x] = op[x]
    BY <1>0, <1>3, <1>4, WorkerAlone DEF Joining, Others
  <2>5. \A e \in Decks : e # d => rt'[e] = rt[e] /\ (Full(e)' <=> Full(e))
    BY <1>2, <1>10, <2>1 DEF Full, OtherDecks
  <2>6. op'["worker"].d = d
    BY <1>0, <1>4 DEF Kept
  <2> QED
    BY <1>2, <2>1, <2>3, <2>4, <2>5, <2>6 DEF IInv, Counted
<1>14. Phases'
  <2>1. \A e : e # d /\ Empty(e) => Empty(e)'
    BY <1>6, <1>12 DEF Empty
  <2>2. ASSUME NEW x \in Callers,
               op'[x].pc \in {"free", "out", "outwait", "begin"} /\ op'[x].ret # "fin"
        PROVE  Empty(op[x].d)'
    <3>1. x # "worker" /\ op'[x] = op[x]
      BY <1>4, <2>2 DEF Others
    <3>2. op[x].pc \in StopPcs
      <4>1. op[x].pc # "begin"
        BY <3>1 DEF IInv, Places, Callers, StopPcs
      <4> QED
        BY <2>2, <3>1, <4>1 DEF StopPcs
    <3>3. op[x].d # d /\ Empty(op[x].d)
      BY <1>0, <1>3, <2>2, <3>1, <3>2, WorkerAlone DEF IInv, Phases
    <3> QED
      BY <2>1, <3>1, <3>3
  <2>3. op'["worker"].pc # "loader" /\ op'["worker"].d = d
    BY <1>0, <1>4 DEF Kept
  <2>4. \A t \in live' : t.d = d => t.sid = nsid
    BY <1>5, <1>6, <1>12
  <2>5. k = "loader" => ~Alive(d, "decode")' /\ rt'[d].started <= 1
    BY <1>5, <1>6, <1>10, <1>12 DEF Alive
  <2>6. op'["worker"].pc = "decode" => k = "loader"
    BY <1>4
  <2> QED
    BY <1>2, <1>5, <1>10, <2>2, <2>3, <2>4, <2>5, <2>6 DEF Phases
<1>15. OnePerKind' /\ OneAtATime' /\ Contexts'
  BY <1>2, <1>5, <1>6, <1>12 DEF IInv, Sessions, OnePerKind, OneAtATime, Contexts, Alive
<1>16. NotYet'
  <2>1. n.pc \notin Holding
    BY <1>6 DEF Holding
  <2>2. k = "loader" => ~slot[d].done /\ \A u \in live : u.d # d
    BY <1>5 DEF Empty
  <2> QED
    BY <1>2, <1>6, <1>12, <2>1, <2>2 DEF IInv, Sessions, NotYet
<1>17. Bound' /\ BuffersKept'
  <2>1. \A t \in live : rt'[t.d].run = rt[t.d].run
    BY <1>10, TaskFacts DEF OtherDecks
  <2> QED
    BY <1>2, <1>5, <1>6, <1>10, <1>12, <2>1 DEF IInv, Sessions, Bound, BuffersKept, Holding
<1> QED
  BY <1>7, <1>9, <1>11, <1>13, <1>14, <1>15, <1>16, <1>17 DEF IInv, Sessions

\* The deck of a load that returns is free again.
LEMMA LoadReturn ==
  ASSUME OpType', LockType, Places, Locks, Others("worker"), op["worker"].pc \notin {"idle", "admit"},
         op'["worker"].pc = "idle", lock' = [lock EXCEPT ![op["worker"].d] = None],
         UNCHANGED blocked
  PROVE  LockType' /\ Places' /\ Locks'
<1>1. LockType' /\ \A e \in Decks : IF e = op["worker"].d THEN lock'[e] = None ELSE lock'[e] = lock[e]
  BY DEF LockType
<1>2. op'["ui"] = op["ui"] /\ op'["storage"] = op["storage"]
  BY DEF Others, Callers
<1>3. Places'
  BY <1>2 DEF Places
<1>4. Locks'
  BY <1>1, <1>2 DEF Locks, None
<1> QED
  BY <1>1, <1>3, <1>4

\* The load succeeds and returns, or gives its session up.
LEMMA LoadOutputKeeps ==
  ASSUME IInv, LoadOutput
  PROVE  IInv'
<1>0. PICK d \in Decks : d = op["worker"].d
  BY WorkerDeck DEF IInv, Types
<1>1. /\ op["worker"].pc = "output" /\ op["worker"].pc \in LoadPcs /\ "worker" \in Callers
      /\ UNCHANGED <<blocked, loaded, ctx, sem, slot, live, nsid>>
  BY DEF LoadOutput, LoadPcs, Callers
<1>2. OpType /\ LockType /\ RtType /\ rt[d].started \in 0 .. ExpectedTasks
  BY DEF IInv, Types, RtType
<1>3. CASE /\ op' = [op EXCEPT !["worker"] = Idle]
           /\ lock' = [lock EXCEPT ![d] = None]
           /\ UNCHANGED rt
  <2>1. OpType' /\ Others("worker") /\ op'["worker"].pc = "idle"
    BY <1>1, <1>2, <1>3, IdleOp
  <2>2. LockType' /\ Places' /\ Locks'
    BY <1>0, <1>1, <1>2, <1>3, <2>1, LoadReturn DEF IInv
  <2>3. Types' /\ Counted' /\ Phases' /\ Sessions' /\ \A e : Clean(e)' <=> Clean(e)
    <3>1. blocked' \in BOOLEAN
      BY <1>1 DEF IInv, Types, FlatType
    <3> QED
      BY <1>1, <1>3, <2>1, <2>2, <3>1, QuietFrame
  <2>4. Swept'
    BY <1>1, <2>1, NoSweep DEF Swept, Others, Callers
  <2> QED
    BY <2>2, <2>3, <2>4 DEF IInv
<1>4. CASE /\ op' = [op EXCEPT !["worker"].pc = "ajoin", !["worker"].got = 0,
                               !["worker"].want = rt[d].started]
           /\ Invalidate(d) /\ UNCHANGED lock
  <2>1. PICK w \in 0 .. ExpectedTasks, g \in 0 .. ExpectedTasks, p \in CallPcs :
           w = rt[d].started /\ g = 0 /\ p = "ajoin"
    BY <1>2 DEF CallPcs, LoadPcs, ExpectedTasks
  <2>2. op' = [op EXCEPT !["worker"].pc = p, !["worker"].got = g, !["worker"].want = w]
    BY <1>4, <2>1
  <2>3. /\ OpType' /\ Others("worker") /\ Kept("worker") /\ op'["worker"].pc = p
        /\ op'["worker"].got = g /\ op'["worker"].want = w
    <3>1. PICK c \in Callers : c = "worker"
      BY <1>1
    <3>2. op' = [op EXCEPT ![c].pc = p, ![c].got = g, ![c].want = w]
      BY <2>2, <3>1
    <3>3. /\ OpType' /\ Others(c) /\ Kept(c) /\ op'[c].pc = p
          /\ op'[c].got = g /\ op'[c].want = w
      <4> DEFINE n == [op[c] EXCEPT !.pc = p, !.got = g, !.want = w]
      <4>1. op[c] \in Call
        BY <1>2 DEF OpType
      <4>2. /\ n \in Call /\ n.pc = p /\ n.want = w /\ n.got = g
            /\ n.d = op[c].d /\ n.ret = op[c].ret /\ n.rc = op[c].rc
        BY <4>1 DEF Call
      <4>3. op' = [op EXCEPT ![c] = n]
        BY <3>2
      <4> HIDE DEF n
      <4>4. OpType' /\ Others(c) /\ op'[c] = n
        BY <1>2, <4>2, <4>3, SetOp
      <4> QED
        BY <4>2, <4>4 DEF Kept
    <3> QED
      BY <3>1, <3>3
  <2>4. /\ RtType' /\ OtherDecks(rt, rt', d) /\ ~rt'[d].run /\ rt'[d].started = rt[d].started
    BY <1>2, <1>4, InvalidateRt
  <2>5. Quieter
    BY <2>4 DEF OtherDecks, Quieter
  <2>6. Types'
    BY <1>1, <1>4, <2>3, <2>4 DEF IInv, Types, FlatType, LockType, CtxType, SlotType, LiveType
  <2>7. Places' /\ Locks'
    BY <1>1, <1>4, <2>1, <2>3, LoadMove DEF IInv, Kept, LoadPcs
  <2>8. Counted'
    <3>1. op'["worker"].got = 0 /\ Full(op'["worker"].d)
      BY <1>0, <1>1, <2>1, <2>3 DEF IInv, Counted, Kept
    <3> QED
      BY <1>1, <2>1, <2>3, <2>5, <3>1, CountFrame DEF IInv
  <2>10. Phases'
    BY <1>0, <1>1, <2>1, <2>3, <2>4, PhaseFrame DEF OtherDecks
  <2>11. Swept'
    BY <1>1, <2>3, NoSweep DEF Swept, Others, Callers
  <2>12. Sessions'
    BY <1>1, <2>5, SessionFrame, TaskFacts DEF IInv, Quieter
  <2> QED
    BY <2>6, <2>7, <2>8, <2>10, <2>11, <2>12 DEF IInv
<1> QED
  BY <1>0, <1>3, <1>4 DEF LoadOutput

\* An aborted load that joined every task it started may free what they used.
LEMMA AbortEmpty ==
  ASSUME IInv, NEW d \in Decks, d = op["worker"].d,
         op["worker"].pc = "ajoin", op["worker"].got = rt[d].started
  PROVE  Busy(d) = 0 /\ sem[d] = 0 /\ Empty(d)
<1>1. /\ Busy(d) \in Nat /\ sem[d] \in Nat /\ rt[d].started \in Nat /\ op["worker"].got \in Nat
  BY DEF IInv, Types, FlatType, RtType, OpType, Call, Callers, SemMax, ExpectedTasks, Busy
<1>2. Busy(d) + sem[d] + op["worker"].got <= rt[d].started
  BY DEF IInv, Counted, Joining, Callers
<1>3. Busy(d) = 0 /\ sem[d] = 0
  BY <1>1, <1>2
<1> QED
  BY <1>3, EmptyByCount

\* The abort frees the session's media if it has joined its tasks, and gives
\* the deck back; it has not forgotten a task that still runs.
LEMMA LoadAbortedKeeps ==
  ASSUME IInv, LoadAborted, ~forgot'
  PROVE  IInv'
<1>0. PICK d \in Decks : d = op["worker"].d
  BY WorkerDeck DEF IInv, Types
<1>1. /\ op["worker"].pc = "ajoin" /\ op["worker"].want = 0
      /\ op["worker"].pc \in LoadPcs /\ "worker" \in Callers
      /\ rt' = [rt EXCEPT ![d].run = FALSE, ![d].started = 0]
      /\ ctx' = [ctx EXCEPT ![d] = NoCtx]
      /\ loaded' = [loaded EXCEPT ![d] = FALSE]
      /\ op' = [op EXCEPT !["worker"] = Idle]
      /\ lock' = [lock EXCEPT ![d] = None]
      /\ UNCHANGED <<blocked, sem, live, nsid>>
  BY <1>0 DEF LoadAborted, LoadPcs, Callers
<1>2. Empty(d) /\ Busy(d) = 0
  <2>1. CASE op["worker"].got = rt[d].started
    BY <1>0, <1>1, <2>1, AbortEmpty
  <2>2. CASE op["worker"].got # rt[d].started
    <3>1. Tasks(d) = {}
      BY <1>0, <2>2 DEF LoadAborted
    <3> QED
      BY <3>1 DEF Tasks, Empty, Busy, Alive
  <2> QED
    BY <2>1, <2>2
<1>3. \/ slot' = [slot EXCEPT ![d].src = 0, ![d].buf = 0]
      \/ slot' = slot
  BY <1>0 DEF LoadAborted
<1>4. OpType /\ LockType /\ RtType /\ CtxType /\ SlotType /\ nsid \in Nat
  BY DEF IInv, Types, FlatType
<1>5. OpType' /\ Others("worker") /\ op'["worker"].pc = "idle"
  BY <1>1, <1>4, IdleOp
<1>6. LockType' /\ Places' /\ Locks'
  BY <1>0, <1>1, <1>4, <1>5, LoadReturn DEF IInv
<1>7. RtType' /\ OtherDecks(rt, rt', d) /\ rt'[d].started = 0 /\ ~rt'[d].run
  <2>0. PICK b \in BOOLEAN : b = FALSE
    OBVIOUS
  <2>1. PICK z \in 0 .. ExpectedTasks : z = 0
    BY DEF ExpectedTasks
  <2>2. rt' = [rt EXCEPT ![d].run = b, ![d].started = z]
    BY <1>1, <2>0, <2>1
  <2>3. RtType' /\ OtherDecks(rt, rt', d) /\ rt'[d].started = z /\ rt'[d].run = b
    BY <1>4, <2>2 DEF RtType, OtherDecks
  <2> QED
    BY <2>0, <2>1, <2>3
<1>8. CtxType' /\ OtherDecks(ctx, ctx', d)
  BY <1>1, <1>4, DeckFacts DEF CtxType, NoCtx, OtherDecks
<1>9. SlotType' /\ OtherDecks(slot, slot', d)
  <2>1. CASE slot' = [slot EXCEPT ![d].src = 0, ![d].buf = 0]
    <3>1. PICK z \in 0 .. nsid : z = 0
      BY <1>4
    <3>2. slot' = [slot EXCEPT ![d].src = z, ![d].buf = z] /\ nsid' = nsid
      BY <1>1, <2>1, <3>1
    <3> QED
      BY <1>4, <3>2 DEF SlotType, OtherDecks
  <2>2. CASE slot' = slot
    BY <1>1, <1>4, <2>2 DEF SlotType, OtherDecks
  <2> QED
    BY <1>3, <2>1, <2>2
<1>10. Types'
  BY <1>1, <1>5, <1>6, <1>7, <1>8, <1>9 DEF IInv, Types, FlatType, LiveType
<1>11. Counted'
  <2>1. \A e \in Decks : Busy(e)' = Busy(e)
    BY <1>1 DEF Busy, Alive
  <2>2. \A x \in Callers, e \in Decks :
           Joining(x, e)' => e # d /\ Joining(x, e) /\ op'[x] = op[x]
    BY <1>0, <1>1, <1>5, WorkerAlone DEF Joining, Others
  <2>3. \A e \in Decks : e # d => rt'[e] = rt[e] /\ (Full(e)' <=> Full(e))
    BY <1>1, <1>7, <2>1 DEF Full, OtherDecks
  <2>4. Busy(d)' = 0 /\ op'["worker"].pc = "idle"
    BY <1>2, <1>5, <2>1
  <2> QED
    BY <1>1, <1>7, <2>1, <2>2, <2>3, <2>4 DEF IInv, Counted
<1>13. Phases'
  BY <1>0, <1>1, <1>5, <1>7, <1>8, <1>9, PhaseFrame
<1>14. Swept'
  BY <1>1, <1>5, NoSweep DEF Swept, Others, Callers
<1>15. Sessions'
  BY <1>1, <1>2, <1>7, <1>8, <1>9, SessionFrame, TaskFacts DEF IInv, Empty, OtherDecks
<1> QED
  BY <1>6, <1>10, <1>11, <1>13, <1>14, <1>15 DEF IInv

\* A step that concerns only the output task, and no step at all.
LEMMA OutputKeeps ==
  ASSUME IInv, UNCHANGED <<blocked, lock, loaded, rt, ctx, sem, slot, live, op, nsid>>
  PROVE  IInv'
<1>1. Types' /\ Places' /\ Locks'
  BY DEF IInv, Types, FlatType, LockType, RtType, CtxType, SlotType, LiveType, OpType,
         Places, Locks
<1>2. Counted'
  BY DEF IInv, Counted, Full, Busy, Alive, Joining
<1>3. Phases' /\ Swept'
  BY DEF IInv, Phases, Swept, Clean, Empty, Alive
<1>4. Sessions'
  BY SessionFrame DEF IInv
<1> QED
  BY <1>1, <1>2, <1>3, <1>4 DEF IInv

-----------------------------------------------------------------------------
(* The theorems.                                                           *)

\* The engine starts with every deck idle and empty.
LEMMA InitInv == Init => IInv
<1> SUFFICES ASSUME Init PROVE IInv
  OBVIOUS
<1> USE DEF Init
<1>1. \A c \in Callers : op[c] = Idle
  OBVIOUS
<1>2. "worker" \in Callers /\ "ui" \in Callers /\ "storage" \in Callers
  BY DEF Callers
<1>3. op["worker"].pc = "idle" /\ op["ui"].pc = "idle" /\ op["storage"].pc = "idle"
  BY <1>1, <1>2 DEF Idle
<1>4. OpType
  BY <1>1, IdleCall DEF OpType
<1>5. FlatType /\ LockType /\ LiveType
  <2>1. sem \in [Decks -> 0 .. SemMax]
    BY DEF SemMax
  <2>2. lock \in [Decks -> Callers \cup {None}]
    OBVIOUS
  <2>3. loaded \in [Decks -> BOOLEAN] /\ blocked \in BOOLEAN
    OBVIOUS
  <2>4. live \subseteq Task /\ nsid \in Nat /\ \A t \in live : t.sid \in 1 .. nsid
    OBVIOUS
  <2> QED
    BY <2>1, <2>2, <2>3, <2>4 DEF FlatType, LockType, LiveType
<1>6. RtType /\ CtxType
  BY DeckFacts DEF RtType, CtxType, NoCtx, ExpectedTasks
<1>7. SlotType
  BY DEF SlotType, EmptySlot
<1>8. Places
  BY <1>3 DEF Places, StopPcs, LoadPcs
<1>9. Locks
  BY <1>3 DEF Locks, StopPcs, None
<1>10. \A d \in Decks : Busy(d) = 0 /\ sem[d] = 0 /\ rt[d].started = 0
  BY DEF Busy, Alive
<1>11. \A c \in Callers : op[c].pc = "idle"
  BY <1>1 DEF Idle
<1>12. Counted
  BY <1>3, <1>10, <1>11 DEF Counted, Full, Joining
<1>13. Phases /\ Swept
  BY <1>3, <1>11 DEF Phases, Swept, StopPcs
<1>14. Sessions
  BY DEF Sessions, OnePerKind, OneAtATime, Contexts, NotYet, Bound, BuffersKept
<1> QED
  BY <1>4, <1>5, <1>6, <1>7, <1>8, <1>9, <1>12, <1>13, <1>14 DEF IInv, Types

\* Every step of a caller, of a task and of the output keeps the invariant,
\* as long as no load has forgotten a task.
LEMMA StepInv == IInv /\ [Next]_vars /\ ~forgot' => IInv'
<1> SUFFICES ASSUME IInv, [Next]_vars, ~forgot' PROVE IInv'
  OBVIOUS
<1>1. CASE \E d \in Decks : LoadAdmit(d) \/ Stop(d)
  BY <1>1, LoadAdmitKeeps, StopKeeps
<1>2. CASE Suspend
  BY <1>2, SuspendKeeps
<1>3. CASE \E c \in Callers : Step(c)
  <2>1. PICK c \in Callers : Step(c)
    BY <1>3
  <2>2. CASE StopBegin(c) \/ Join(c) \/ StopJoined(c) \/ StopFree(c) \/ OutStop(c) \/ OutWait(c)
    BY <2>2, StopBeginKeeps, JoinKeeps, StopJoinedKeeps, StopFreeKeeps, OutStopKeeps, OutWaitKeeps
  <2>3. CASE LoadEnter \/ LoadBegin \/ LoadSpawn \/ LoadOutput \/ LoadAborted
    BY <2>3, LoadEnterKeeps, LoadBeginKeeps, LoadSpawnKeeps, LoadOutputKeeps, LoadAbortedKeeps
  <2>4. CASE SuspendLock \/ SuspendEnd \/ Resume
    BY <2>4, SuspendLockKeeps, SuspendEndKeeps, ResumeKeeps
  <2> QED
    BY <2>1, <2>2, <2>3, <2>4 DEF Step
<1>4. CASE \E t \in live : TaskStep(t)
  <2>1. PICK t \in live : TaskStep(t)
    BY <1>4
  <2>2. CASE TaskEnd(t)
    BY <2>2, TaskEndKeeps DEF TaskEnd
  <2>3. CASE TaskStart(t) \/ ReadBegin(t) \/ LoaderOpened(t)
    BY <2>3, TaskStartKeeps, ReadBeginKeeps, LoaderOpenedKeeps
  <2>4. CASE LoaderFilled(t) \/ DecodeRead(t) \/ DecodeReady(t)
    BY <2>4, LoaderFilledKeeps, DecodeReadKeeps, DecodeReadyKeeps
  <2> QED
    BY <2>1, <2>2, <2>3, <2>4 DEF TaskStep
<1>5. CASE OutputEnd \/ OutputSignal
  BY <1>5, OutputKeeps DEF OutputEnd, OutputSignal
<1>6. CASE UNCHANGED vars
  BY <1>6, OutputKeeps DEF vars
<1> QED
  BY <1>1, <1>2, <1>3, <1>4, <1>5, <1>6 DEF Next

\* Once a load has forgotten a task, that is so for good.
LEMMA ForgotStays == forgot /\ [Next]_vars => forgot'
<1> SUFFICES ASSUME forgot, [Next]_vars PROVE forgot'
  OBVIOUS
<1>1. CASE LoadAborted
  BY <1>1 DEF LoadAborted
<1>2. CASE \E d \in Decks : LoadAdmit(d) \/ Stop(d)
  BY <1>2 DEF LoadAdmit, Stop
<1>3. CASE \E c \in Callers : StopBegin(c) \/ Join(c) \/ StopJoined(c) \/ StopFree(c)
                              \/ OutStop(c) \/ OutWait(c)
  BY <1>3 DEF StopBegin, Join, StopJoined, StopFree, OutStop, OutWait
<1>4. CASE LoadEnter \/ LoadBegin \/ LoadSpawn \/ LoadOutput
  BY <1>4 DEF LoadEnter, LoadBegin, LoadSpawn, LoadOutput
<1>5. CASE Suspend \/ SuspendLock \/ SuspendEnd \/ Resume
  BY <1>5 DEF Suspend, SuspendLock, SuspendEnd, Resume
<1>6. CASE \E t \in live : TaskStep(t)
  BY <1>6 DEF TaskStep, TaskStart, ReadBegin, LoaderOpened, LoaderFilled, DecodeRead, DecodeReady,
              TaskEnd
<1>7. CASE OutputEnd \/ OutputSignal \/ UNCHANGED vars
  BY <1>7 DEF OutputEnd, OutputSignal, vars
<1> QED
  BY <1>1, <1>2, <1>3, <1>4, <1>5, <1>6, <1>7 DEF Next, Step

Inv == forgot \/ IInv

\* The invariant holds throughout, for any number of decks, loads, stops and
\* removals and whichever joins time out, until a load forgets a task.
THEOREM Invariance == Spec => []Inv
<1>1. Init => Inv
  BY InitInv DEF Inv
<1>2. Inv /\ [Next]_vars => Inv'
  BY StepInv, ForgotStays DEF Inv
<1> QED
  BY <1>1, <1>2, PTL DEF Spec

\* The variables keep their types, and a deck's mutex is held by a caller
\* that is inside the engine, until a load forgets a task.
THEOREM TypeCorrect == Spec => [](~forgot => TypeOK)
<1>1. Inv => (~forgot => TypeOK)
  <2> SUFFICES ASSUME IInv PROVE TypeOK
    BY DEF Inv
  <2>1. blocked \in BOOLEAN /\ lock \in [Decks -> Callers \cup {None}]
        /\ loaded \in [Decks -> BOOLEAN] /\ sem \in [Decks -> 0 .. SemMax]
    BY DEF IInv, Types, FlatType, LockType
  <2>2. ASSUME NEW d \in Decks, lock[d] # None PROVE op[lock[d]].pc # "idle"
    <3>1. lock[d] \in Callers
      BY <2>1, <2>2
    <3> QED
      BY <3>1 DEF IInv, Locks, Callers, StopPcs
  <2>3. \A d \in Decks : rt[d].started \in 0 .. ExpectedTasks
    BY DEF IInv, Types, RtType
  <2>4. \A d \in Decks : {slot[d].src, slot[d].buf} \subseteq 0 .. nsid
    BY DEF IInv, Types, SlotType
  <2>5. \A t \in live : t.d \in Decks /\ t.sid \in 1 .. nsid
    BY TaskFacts
  <2> QED
    BY <2>1, <2>2, <2>3, <2>4, <2>5 DEF TypeOK
<1> QED
  BY <1>1, Invariance, PTL

\* No buffer is freed or rebound under a task that uses it, unless a load has
\* forgotten a task.
THEOREM NoUseAfterFree == Spec => []BufferOutlivesTasks
<1>1. Inv => BufferOutlivesTasks
  BY DEF Inv, IInv, Sessions, BuffersKept, Holding, BufferOutlivesTasks
<1> QED
  BY <1>1, Invariance, PTL

\* Two sessions never have tasks on the same deck, unless a load has
\* forgotten a task.
THEOREM SessionsExclude == Spec => []OneSession
<1>1. Inv => OneSession
  BY DEF Inv, IInv, Sessions, OneAtATime, OneSession
<1> QED
  BY <1>1, Invariance, PTL

-----------------------------------------------------------------------------
(* The engine implements the barrier.                                      *)

BarrierNow ==
  IF forgot THEN "void"
  ELSE IF ~blocked THEN "open" ELSE IF op["storage"].pc = "held" THEN "closed" ELSE "closing"
Loads(d) == op["worker"].pc # "idle" /\ op["worker"].d = d
LoadingNow == [d \in Decks |-> op["worker"].pc # "idle" /\ op["worker"].d = d]
HoldsNow == [d \in Decks |-> (\E t \in live : t.d = d) \/ slot[d].src # 0 \/ slot[d].buf # 0]

\* A deck holds media unless it is clean.
LEMMA HoldsClean == \A d \in Decks : HoldsNow[d] <=> ~Clean(d)
  BY DEF HoldsNow, Clean, Empty

\* What the decks hold, when each stays as clean as it was ...
LEMMA HoldsSame ==
  ASSUME \A d \in Decks : Clean(d)' <=> Clean(d)
  PROVE  HoldsNow' = HoldsNow
<1> DEFINE H(d) == (\E t \in live : t.d = d) \/ slot[d].src # 0 \/ slot[d].buf # 0
<1>1. \A d \in Decks : H(d) <=> ~Clean(d)
  BY DEF Clean, Empty
<1>2. \A d \in Decks : H(d)' <=> ~Clean(d)'
  BY DEF Clean, Empty
<1>3. \A d \in Decks : H(d)' = H(d)
  BY <1>1, <1>2
<1>4. HoldsNow = [d \in Decks |-> H(d)] /\ HoldsNow' = [d \in Decks |-> H(d)']
  BY DEF HoldsNow
<1> HIDE DEF H
<1> QED
  BY <1>3, <1>4

\* ... and when one deck becomes clean, or ceases to be.
LEMMA HoldsDrop ==
  ASSUME NEW e \in Decks, NEW b \in BOOLEAN, Clean(e)' <=> ~b,
         \A d \in Decks : d # e => (Clean(d)' <=> Clean(d))
  PROVE  HoldsNow' = [HoldsNow EXCEPT ![e] = b]
<1> DEFINE H(d) == (\E t \in live : t.d = d) \/ slot[d].src # 0 \/ slot[d].buf # 0
<1>1. \A d \in Decks : H(d) <=> ~Clean(d)
  BY DEF Clean, Empty
<1>2. \A d \in Decks : H(d)' <=> ~Clean(d)'
  BY DEF Clean, Empty
<1>3. \A d \in Decks : d # e => H(d)' = H(d)
  BY <1>1, <1>2
<1>4. H(e)' = b
  BY <1>2
<1>5. HoldsNow = [d \in Decks |-> H(d)] /\ HoldsNow' = [d \in Decks |-> H(d)']
  BY DEF HoldsNow
<1> HIDE DEF H
<1> QED
  BY <1>3, <1>4, <1>5

\* Which LOAD is under way, when none begins or ends ...
LEMMA LoadingSame ==
  ASSUME \A d \in Decks : Loads(d)' <=> Loads(d)
  PROVE  LoadingNow' = LoadingNow
<1>1. \A d \in Decks : Loads(d)' = Loads(d)
  BY DEF Loads
<1>2. LoadingNow = [d \in Decks |-> Loads(d)] /\ LoadingNow' = [d \in Decks |-> Loads(d)']
  BY DEF LoadingNow, Loads
<1> QED
  BY <1>1, <1>2

\* ... and when one does.
LEMMA LoadingSet ==
  ASSUME NEW e \in Decks, NEW b \in BOOLEAN, Loads(e)' <=> b,
         \A d \in Decks : d # e => (Loads(d)' <=> Loads(d))
  PROVE  LoadingNow' = [LoadingNow EXCEPT ![e] = b]
<1>1. \A d \in Decks : d # e => Loads(d)' = Loads(d)
  BY DEF Loads
<1>2. Loads(e)' = b
  BY DEF Loads
<1>3. LoadingNow = [d \in Decks |-> Loads(d)] /\ LoadingNow' = [d \in Decks |-> Loads(d)']
  BY DEF LoadingNow, Loads
<1> QED
  BY <1>1, <1>2, <1>3

\* The barrier moves only when the storage task closes or opens admission or
\* enters or leaves "held", or when a load forgets a task; LOADs are under way
\* while the worker is in a call.
Unseen ==
  /\ UNCHANGED <<blocked, forgot>>
  /\ op'["storage"].pc = "held" <=> op["storage"].pc = "held"
  /\ op'["worker"].pc = "idle" <=> op["worker"].pc = "idle"
  /\ op'["worker"].d = op["worker"].d

\* Such a step the barrier does not see but for what decks hold.
LEMMA UnseenSame ==
  ASSUME Unseen
  PROVE  BarrierNow' = BarrierNow /\ LoadingNow' = LoadingNow
<1>1. \A d \in Decks : Loads(d)' <=> Loads(d)
  BY DEF Unseen, Loads
<1>2. LoadingNow' = LoadingNow
  BY <1>1, LoadingSame
<1>3. BarrierNow' = BarrierNow
  BY DEF Unseen, BarrierNow
<1> QED
  BY <1>2, <1>3

\* A caller that moves on inside its call is not seen.
LEMMA GotoUnseen ==
  ASSUME OpType, NEW c \in Callers, NEW p \in CallPcs, Goto(c, p), UNCHANGED <<blocked, forgot>>,
         p \notin {"idle", "held"}, op[c].pc \notin {"idle", "held"}
  PROVE  Unseen
<1>1. Others(c) /\ op'[c].pc = p /\ op'[c].d = op[c].d
  BY GotoOp
<1> QED
  BY <1>1 DEF Unseen, Others, Callers

\* A step that keeps barrier and LOADs and cleans at most one deck.
LEMMA DropStep ==
  ASSUME NEW e \in Decks, BarrierNow' = BarrierNow, LoadingNow' = LoadingNow,
         Clean(e) => Clean(e)', \A d \in Decks : d # e => (Clean(d)' <=> Clean(d))
  PROVE  [Barrier!Next]_(Barrier!vars)
<1>1. CASE Clean(e)' <=> Clean(e)
  <2>1. HoldsNow' = HoldsNow
    BY <1>1, HoldsSame
  <2> QED
    BY <2>1 DEF Barrier!vars, BarrierNow, LoadingNow, HoldsNow
<1>2. CASE Clean(e)' /\ ~Clean(e)
  <2>1. HoldsNow' = [HoldsNow EXCEPT ![e] = FALSE]
    BY <1>2, HoldsDrop
  <2>2. HoldsNow[e]
    BY <1>2, HoldsClean
  <2>3. Barrier!Drop(e)
    BY <2>1, <2>2 DEF Barrier!Drop, BarrierNow, LoadingNow, HoldsNow
  <2> QED
    BY <2>3 DEF Barrier!Next
<1> QED
  BY <1>1, <1>2

\* A LOAD returns; its deck stays as it was or is clean now.
LEMMA EndLoadStep ==
  ASSUME NEW e \in Decks, BarrierNow' = BarrierNow, Loads(e), op'["worker"].pc = "idle",
         Clean(e) => Clean(e)', \A d \in Decks : d # e => (Clean(d)' <=> Clean(d))
  PROVE  [Barrier!Next]_(Barrier!vars)
<1>1. LoadingNow' = [LoadingNow EXCEPT ![e] = FALSE]
  <2>1. /\ Loads(e)' <=> FALSE
        /\ \A d \in Decks : d # e => (Loads(d)' <=> Loads(d))
    BY DEF Loads
  <2>2. PICK b \in BOOLEAN : b = FALSE
    OBVIOUS
  <2>3. LoadingNow' = [LoadingNow EXCEPT ![e] = b]
    BY <2>1, <2>2, LoadingSet
  <2> QED
    BY <2>2, <2>3
<1>2. LoadingNow[e]
  BY DEF LoadingNow, Loads
<1>3. HoldsNow' = HoldsNow \/ HoldsNow' = [HoldsNow EXCEPT ![e] = FALSE]
  BY HoldsSame, HoldsDrop
<1>4. Barrier!EndLoad(e)
  BY <1>1, <1>2, <1>3 DEF Barrier!EndLoad, BarrierNow, LoadingNow, HoldsNow
<1> QED
  BY <1>4 DEF Barrier!Next

\* The return of a stop, seen from the barrier.
LEMMA ReturnStep ==
  ASSUME IInv, NEW c \in Callers, NEW rc \in {"OK", "TIMEOUT"}, Return(c, rc),
         op[c].pc \in StopPcs, UNCHANGED <<blocked, forgot>>, NEW e \in Decks, e = op[c].d,
         Clean(e) => Clean(e)', \A d \in Decks : d # e => (Clean(d)' <=> Clean(d))
  PROVE  [Barrier!Next]_(Barrier!vars)
<1>1. OpType' /\ LockType' /\ Others(c) /\ Returned(c, rc)
  BY ReturnOp DEF IInv, Types
<1>2. BarrierNow' = BarrierNow
  BY <1>1 DEF BarrierNow, Returned, Others, Callers, StopPcs
<1>3. CASE c = "worker" /\ op'[c].pc = "idle"
  <2>1. Loads(e)
    BY <1>3 DEF Loads, StopPcs
  <2> QED
    BY <1>2, <1>3, <2>1, EndLoadStep
<1>4. CASE ~(c = "worker" /\ op'[c].pc = "idle")
  <2>1. Unseen
    BY <1>1, <1>4 DEF Unseen, Returned, Others, Kept, Callers, StopPcs
  <2> QED
    BY <2>1, UnseenSame, DropStep
<1> QED
  BY <1>3, <1>4

\* A step that leaves the decks, the worker's call and the barrier alone.
LEMMA QuietStep ==
  ASSUME Unseen, UNCHANGED slot, \A e \in Decks : Empty(e)' <=> Empty(e)
  PROVE  [Barrier!Next]_(Barrier!vars)
<1>1. HoldsNow' = HoldsNow
  BY HoldsSame DEF Clean
<1> QED
  BY <1>1, UnseenSame DEF Barrier!vars, BarrierNow, LoadingNow, HoldsNow

\* A step that leaves calls and barrier alone and concerns one deck.
LEMMA DeckStep ==
  ASSUME NEW e \in Decks, Unseen,
         Clean(e) => Clean(e)', \A d \in Decks : d # e => (Clean(d)' <=> Clean(d))
  PROVE  [Barrier!Next]_(Barrier!vars)
  BY DropStep, UnseenSame

\* A task that moves on keeps its deck, whatever it does to the slot.
LEMMA TaskMoveStep ==
  ASSUME IInv, NEW t \in live, NEW p, live' = At(t, p),
         UNCHANGED <<blocked, forgot, op>>, OtherDecks(slot, slot', t.d)
  PROVE  [Barrier!Next]_(Barrier!vars)
<1>1. PICK u : /\ u.d = t.d /\ live' = (live \ {t}) \cup {u}
  BY AtLive DEF IInv, Types
<1>2. PICK e \in Decks : e = t.d
  BY TaskFacts
<1>3. ~Clean(e) /\ \A d \in Decks : d # e => (Clean(d)' <=> Clean(d))
  BY <1>1, <1>2 DEF Clean, Empty, OtherDecks
<1> QED
  BY <1>3, DeckStep DEF Unseen

\* A task that ends may leave its deck clean.
LEMMA TaskExitStep ==
  ASSUME IInv, NEW t \in live, Exits(t), UNCHANGED <<blocked, forgot, op, slot>>
  PROVE  [Barrier!Next]_(Barrier!vars)
<1>1. live' = live \ {t}
  BY DEF Exits
<1>2. PICK e \in Decks : e = t.d
  BY TaskFacts
<1>3. ~Clean(e) /\ \A d \in Decks : d # e => (Clean(d)' <=> Clean(d))
  BY <1>1, <1>2 DEF Clean, Empty
<1> QED
  BY <1>3, DeckStep DEF Unseen

\* The steps of the tasks only ever let go of media.
LEMMA TaskBarrier ==
  ASSUME IInv, NEW t \in live, TaskStep(t)
  PROVE  [Barrier!Next]_(Barrier!vars)
<1>0. UNCHANGED <<blocked, forgot, op>>
  BY DEF TaskStep, TaskStart, ReadBegin, LoaderOpened, LoaderFilled, DecodeRead, DecodeReady, TaskEnd
<1>1. CASE Exits(t) /\ UNCHANGED slot
  BY <1>0, <1>1, TaskExitStep
<1>2. CASE (\E p : live' = At(t, p)) /\ OtherDecks(slot, slot', t.d)
  BY <1>0, <1>2, TaskMoveStep
<1>3. t.d \in Decks /\ SlotType
  BY TaskFacts DEF IInv, Types
<1>4. CASE TaskStart(t)
  BY <1>1, <1>2, <1>3, <1>4 DEF TaskStart, SlotType, OtherDecks
<1>5. CASE ReadBegin(t) \/ DecodeRead(t) \/ DecodeReady(t)
  BY <1>2, <1>5 DEF ReadBegin, DecodeRead, DecodeReady, OtherDecks
<1>6. CASE LoaderOpened(t) \/ LoaderFilled(t)
  <2>1. \E p : live' = At(t, p)
    BY <1>6 DEF LoaderOpened, LoaderFilled
  <2>2. OtherDecks(slot, slot', t.d)
    BY <1>3, <1>6 DEF LoaderOpened, LoaderFilled, SlotType, OtherDecks
  <2> QED
    BY <1>2, <2>1, <2>2
<1>7. CASE TaskEnd(t)
  BY <1>1, <1>7 DEF TaskEnd
<1> QED
  BY <1>4, <1>5, <1>6, <1>7 DEF TaskStep

\* The steps of a stop: nothing is visible of them but the media they free
\* and the LOAD they may end.
LEMMA StopBarrier ==
  ASSUME IInv, NEW c \in Callers,
         StopBegin(c) \/ Join(c) \/ StopJoined(c) \/ StopFree(c) \/ OutStop(c) \/ OutWait(c)
  PROVE  [Barrier!Next]_(Barrier!vars)
<1>0. PICK d \in Decks : d = op[c].d
  BY DEF IInv, Types, OpType, Call
<1>1. UNCHANGED <<blocked, live, forgot>>
  BY DEF StopBegin, Join, StopJoined, StopFree, OutStop, OutWait
<1>2. OpType /\ op[c].pc \in StopPcs \cup LoadPcs /\ op[c].pc \notin {"idle", "held"}
  BY DEF StopBegin, Join, StopJoined, StopFree, OutStop, OutWait, StopPcs, LoadPcs, IInv, Types
<1>3. \A e : Empty(e)' <=> Empty(e)
  BY <1>1 DEF Empty
<1>4. ASSUME Others(c), op'[c].pc \notin {"idle", "held"}, op'[c].d = op[c].d
      PROVE  Unseen
  BY <1>1, <1>2, <1>4 DEF Others, Callers, Unseen
<1>5. ASSUME NEW p \in CallPcs, p \notin {"idle", "held"}, Goto(c, p)
      PROVE  Unseen
  BY <1>1, <1>2, <1>5, GotoUnseen
<1>6. CASE StopBegin(c)
  <2>1. UNCHANGED slot
    BY <1>6 DEF StopBegin
  <2>2. Unseen
    <3>1. CASE Goto(c, "free")
      <4>1. "free" \in CallPcs
        BY DEF CallPcs, StopPcs
      <4> QED
        BY <1>5, <3>1, <4>1
    <3>2. CASE op' = [op EXCEPT ![c].pc = "join", ![c].want = rt[d].started, ![c].got = 0]
      <4>1. PICK w, g, p : w = rt[d].started /\ g = 0 /\ p = "join"
        OBVIOUS
      <4>2. op' = [op EXCEPT ![c].pc = p, ![c].want = w, ![c].got = g]
        BY <3>2, <4>1
      <4>3. Others(c) /\ op'[c].pc = p /\ op'[c].d = op[c].d
        BY <1>2, <4>2 DEF OpType, Call, Others
      <4> QED
        BY <1>4, <4>1, <4>3
    <3> QED
      BY <1>0, <1>6, <3>1, <3>2 DEF StopBegin
  <2> QED
    BY <1>3, <2>1, <2>2, QuietStep
<1>7. CASE Join(c)
  <2>1. UNCHANGED slot
    BY <1>7 DEF Join
  <2>2. Others(c) /\ op'[c].pc = op[c].pc /\ op'[c].d = op[c].d
    BY <1>2, <1>7 DEF Join, OpType, Call, Others
  <2>3. Unseen
    BY <1>2, <1>4, <2>2
  <2> QED
    BY <1>3, <2>1, <2>3, QuietStep
<1>8. "free" \in CallPcs /\ "out" \in CallPcs /\ "outwait" \in CallPcs
  BY DEF CallPcs, StopPcs
<1>9. ASSUME UNCHANGED slot, NEW rc \in {"OK", "TIMEOUT"}, Return(c, rc), op[c].pc \in StopPcs
      PROVE  [Barrier!Next]_(Barrier!vars)
  <2>1. \A e \in Decks : Clean(e)' <=> Clean(e)
    BY <1>3, <1>9 DEF Clean
  <2> QED
    BY <1>0, <1>1, <1>9, <2>1, ReturnStep
<1>10. CASE StopJoined(c)
  <2>1. UNCHANGED slot /\ op[c].pc \in StopPcs
    BY <1>10 DEF StopJoined, StopPcs
  <2>2. CASE Goto(c, "free") /\ UNCHANGED lock
    BY <1>3, <1>5, <1>8, <2>1, <2>2, QuietStep
  <2>3. CASE Return(c, "TIMEOUT")
    BY <1>9, <2>1, <2>3
  <2> QED
    BY <1>10, <2>2, <2>3 DEF StopJoined
<1>11. CASE StopFree(c)
  <2>1. slot' = [slot EXCEPT ![d] = EmptySlot] /\ op[c].pc \in StopPcs
    BY <1>0, <1>11 DEF StopFree, StopPcs
  <2>2. slot'[d] = EmptySlot /\ OtherDecks(slot, slot', d)
    BY <2>1 DEF IInv, Types, SlotType, OtherDecks
  <2>3. /\ Clean(d) => Clean(d)'
        /\ \A e \in Decks : e # d => (Clean(e)' <=> Clean(e))
    BY <1>3, <2>2 DEF Clean, OtherDecks, EmptySlot
  <2>4. CASE Goto(c, "out") /\ UNCHANGED lock
    BY <1>5, <1>8, <2>3, <2>4, DeckStep
  <2>5. CASE Return(c, "OK")
    BY <1>0, <1>1, <2>1, <2>3, <2>5, ReturnStep
  <2> QED
    BY <1>11, <2>4, <2>5 DEF StopFree
<1>12. CASE OutStop(c)
  <2>1. UNCHANGED slot /\ op[c].pc \in StopPcs
    BY <1>12 DEF OutStop, StopPcs
  <2>2. CASE Goto(c, "outwait") /\ UNCHANGED lock
    BY <1>3, <1>5, <1>8, <2>1, <2>2, QuietStep
  <2>3. CASE Return(c, "OK")
    BY <1>9, <2>1, <2>3
  <2> QED
    BY <1>12, <2>2, <2>3 DEF OutStop
<1>13. CASE OutWait(c)
  <2>1. UNCHANGED slot /\ op[c].pc \in StopPcs /\ (Return(c, "OK") \/ Return(c, "TIMEOUT"))
    BY <1>13 DEF OutWait, StopPcs
  <2> QED
    BY <1>9, <2>1
<1> QED
  BY <1>6, <1>7, <1>10, <1>11, <1>12, <1>13

\* A LOAD that gives up and loses sight of a task makes the promise void.
LEMMA ForgetStep ==
  ASSUME NEW e \in Decks, Loads(e), op'["worker"].pc = "idle", ~forgot, forgot', ~Clean(e),
         UNCHANGED <<slot, live>>
  PROVE  [Barrier!Next]_(Barrier!vars)
<1>1. LoadingNow' = [LoadingNow EXCEPT ![e] = FALSE]
  <2>1. /\ Loads(e)' <=> FALSE
        /\ \A d \in Decks : d # e => (Loads(d)' <=> Loads(d))
    BY DEF Loads
  <2>2. PICK b \in BOOLEAN : b = FALSE
    OBVIOUS
  <2>3. LoadingNow' = [LoadingNow EXCEPT ![e] = b]
    BY <2>1, <2>2, LoadingSet
  <2> QED
    BY <2>2, <2>3
<1>2. LoadingNow[e] /\ HoldsNow[e]
  BY HoldsClean DEF LoadingNow, Loads
<1>3. HoldsNow' = HoldsNow
  BY DEF HoldsNow
<1>4. BarrierNow # "void" /\ BarrierNow' = "void"
  BY DEF BarrierNow
<1>5. Barrier!Forget(e)
  BY <1>1, <1>2, <1>3, <1>4 DEF Barrier!Forget, BarrierNow, LoadingNow, HoldsNow
<1> QED
  BY <1>5 DEF Barrier!Next

\* The abort ends the LOAD; it frees what it joined, or leaves it, or forgets
\* a task that still uses it.
LEMMA AbortBarrier ==
  ASSUME IInv, ~forgot, LoadAborted
  PROVE  [Barrier!Next]_(Barrier!vars)
<1>0. PICK d \in Decks : d = op["worker"].d
  BY WorkerDeck DEF IInv, Types
<1>1. /\ OpType /\ SlotType /\ "worker" \in Callers /\ Loads(d)
      /\ UNCHANGED <<blocked, live>> /\ op' = [op EXCEPT !["worker"] = Idle]
      /\ forgot' = (forgot \/ (op["worker"].got # rt[d].started /\ Tasks(d) # {}))
      /\ op["worker"].got # rt[d].started => slot' = slot
      /\ slot' = slot \/ slot' = [slot EXCEPT ![d].src = 0, ![d].buf = 0]
  BY <1>0 DEF LoadAborted, Loads, IInv, Types, Callers
<1>2. op'["worker"].pc = "idle" /\ op'["storage"] = op["storage"]
  BY <1>1, IdleOp DEF Others, Callers
<1>3. CASE forgot'
  <2>1. slot' = slot /\ Tasks(d) # {}
    BY <1>1, <1>3
  <2>2. ~Clean(d)
    BY <2>1 DEF Tasks, Clean, Empty
  <2> QED
    BY <1>1, <1>2, <1>3, <2>1, <2>2, ForgetStep
<1>4. CASE ~forgot'
  <2>1. BarrierNow' = BarrierNow
    BY <1>1, <1>2, <1>4 DEF BarrierNow
  <2>2. OtherDecks(slot, slot', d) /\ (slot'[d] = slot[d] \/ (slot'[d].src = 0 /\ slot'[d].buf = 0))
    <3>1. CASE slot' = slot
      BY <3>1 DEF OtherDecks
    <3>2. CASE slot' = [slot EXCEPT ![d].src = 0, ![d].buf = 0]
      <4>1. PICK z : z = 0
        OBVIOUS
      <4>2. slot' = [slot EXCEPT ![d].src = z, ![d].buf = z]
        BY <3>2, <4>1
      <4>3. OtherDecks(slot, slot', d) /\ slot'[d].src = z /\ slot'[d].buf = z
        BY <1>1, <4>2 DEF SlotType, OtherDecks
      <4> QED
        BY <4>1, <4>3
    <3> QED
      BY <1>1, <3>1, <3>2
  <2>3. /\ Clean(d) => Clean(d)'
        /\ \A e \in Decks : e # d => (Clean(e)' <=> Clean(e))
    BY <1>1, <2>2 DEF Clean, Empty, OtherDecks
  <2> QED
    BY <1>1, <1>2, <2>1, <2>3, EndLoadStep
<1> QED
  BY <1>3, <1>4

\* The steps of a load: the session is acquired inside it, and it ends.
LEMMA LoadBarrier ==
  ASSUME IInv, LoadEnter \/ LoadBegin \/ LoadSpawn \/ LoadOutput
  PROVE  [Barrier!Next]_(Barrier!vars)
<1>0. PICK d \in Decks : d = op["worker"].d
  BY WorkerDeck DEF IInv, Types
<1>1. /\ UNCHANGED <<blocked, forgot>> /\ OpType /\ SlotType /\ "worker" \in Callers
      /\ op["worker"].pc \notin {"idle", "held"} /\ Loads(d)
  BY <1>0 DEF LoadEnter, LoadBegin, LoadSpawn, LoadOutput, IInv, Types, Callers, Loads
<1>2. ASSUME NEW p \in CallPcs, p \notin {"idle", "held"}, Goto("worker", p)
      PROVE  Unseen
  BY <1>1, <1>2, GotoUnseen
<1>3. CASE LoadEnter
  <2>1. "stop" \in CallPcs /\ Goto("worker", "stop") /\ UNCHANGED <<slot, live>>
    BY <1>3 DEF LoadEnter, CallPcs, StopPcs
  <2>2. Unseen
    BY <1>2, <2>1
  <2> QED
    BY <2>1, <2>2, QuietStep DEF Empty
<1>4. CASE LoadBegin
  <2>1. slot' = [slot EXCEPT ![d] = EmptySlot] /\ UNCHANGED live /\ Goto("worker", "loader")
    BY <1>0, <1>4 DEF LoadBegin
  <2>2. slot'[d] = EmptySlot /\ OtherDecks(slot, slot', d)
    BY <1>1, <2>1 DEF SlotType, OtherDecks
  <2>3. /\ Clean(d) => Clean(d)'
        /\ \A e \in Decks : e # d => (Clean(e)' <=> Clean(e))
    BY <2>1, <2>2 DEF Clean, Empty, OtherDecks, EmptySlot
  <2>4. Unseen
    BY <1>2, <2>1 DEF CallPcs, LoadPcs
  <2> QED
    BY <2>3, <2>4, DeckStep
<1>5. CASE LoadSpawn
  <2>1. /\ UNCHANGED slot
        /\ \/ UNCHANGED live
           \/ live' = live \cup {[d |-> d, k |-> op["worker"].pc, sid |-> nsid, pc |-> "start"]}
    BY <1>0, <1>5 DEF LoadSpawn
  <2>2. Unseen
    <3>1. PICK p \in CallPcs : p \notin {"idle", "held"} /\ Goto("worker", p)
      BY <1>5 DEF LoadSpawn, CallPcs, LoadPcs
    <3> QED
      BY <1>2, <3>1
  <2>3. CASE UNCHANGED live
    BY <2>1, <2>2, <2>3, QuietStep DEF Empty
  <2>4. CASE live' = live \cup {[d |-> d, k |-> op["worker"].pc, sid |-> nsid, pc |-> "start"]}
    <3>1. PICK n : n.d = d /\ live' = live \cup {n}
      BY <2>4
    <3>2. ~Clean(d)' /\ \A e \in Decks : e # d => (Clean(e)' <=> Clean(e))
      BY <2>1, <3>1 DEF Clean, Empty
    <3>3. HoldsNow' = [HoldsNow EXCEPT ![d] = TRUE]
      BY <3>2, HoldsDrop
    <3>4. BarrierNow' = BarrierNow /\ LoadingNow' = LoadingNow /\ LoadingNow[d]
      BY <1>1, <2>2, UnseenSame DEF LoadingNow, Loads
    <3>5. Barrier!Acquire(d)
      BY <3>3, <3>4 DEF Barrier!Acquire, BarrierNow, LoadingNow, HoldsNow
    <3> QED
      BY <3>5 DEF Barrier!Next
  <2> QED
    BY <2>1, <2>3, <2>4
<1>6. CASE LoadOutput
  <2>1. UNCHANGED <<slot, live>>
    BY <1>6 DEF LoadOutput
  <2>2. \A e \in Decks : Clean(e)' <=> Clean(e)
    BY <2>1 DEF Clean, Empty
  <2>3. CASE op' = [op EXCEPT !["worker"] = Idle]
    <3>1. op'["worker"].pc = "idle" /\ op'["storage"] = op["storage"]
      BY <1>1, <2>3, IdleOp DEF Others, Callers
    <3>2. BarrierNow' = BarrierNow
      BY <1>1, <3>1 DEF BarrierNow
    <3> QED
      BY <1>1, <2>2, <3>1, <3>2, EndLoadStep
  <2>4. CASE op' = [op EXCEPT !["worker"].pc = "ajoin", !["worker"].got = 0,
                              !["worker"].want = rt[d].started]
    <3>1. PICK w, g, p : w = rt[d].started /\ g = 0 /\ p = "ajoin"
      OBVIOUS
    <3>2. op' = [op EXCEPT !["worker"].pc = p, !["worker"].got = g, !["worker"].want = w]
      BY <2>4, <3>1
    <3>3. /\ Others("worker") /\ op'["worker"].pc = p /\ op'["worker"].d = op["worker"].d
      BY <1>1, <3>2 DEF OpType, Call, Others
    <3>4. Unseen
      BY <1>1, <3>1, <3>3 DEF Unseen, Others, Callers
    <3> QED
      BY <2>2, <3>4, DeckStep
  <2> QED
    BY <1>0, <1>6, <2>3, <2>4 DEF LoadOutput
<1> QED
  BY <1>3, <1>4, <1>5, <1>6

\* The removal's own steps open and close the barrier.
LEMMA SuspendBarrier ==
  ASSUME IInv, ~forgot, Suspend \/ SuspendLock \/ SuspendEnd \/ Resume
  PROVE  [Barrier!Next]_(Barrier!vars)
<1>0. OpType /\ LockType /\ "storage" \in Callers /\ UNCHANGED <<slot, live, forgot>>
  BY DEF IInv, Types, Callers, Suspend, SuspendLock, SuspendEnd, Resume
<1>1. HoldsNow' = HoldsNow
  <2>1. \A d \in Decks : Clean(d)' <=> Clean(d)
    BY <1>0 DEF Clean, Empty
  <2> QED
    BY <2>1, HoldsSame
<1>2. op'["worker"] = op["worker"]
  BY <1>0 DEF Suspend, SuspendLock, SuspendEnd, Resume, Goto, OpType, Callers
<1>3. LoadingNow' = LoadingNow
  BY <1>2 DEF LoadingNow
<1>4. CASE Suspend
  <2>1. ~blocked /\ blocked'
    BY <1>4 DEF Suspend
  <2>2. op'["storage"].pc = "lock"
    <3> DEFINE o == [Idle EXCEPT !.pc = "lock", !.ret = "all"]
    <3>1. o.pc = "lock"
      BY IdleCall DEF Call
    <3>2. op' = [op EXCEPT !["storage"] = o]
      BY <1>4 DEF Suspend
    <3> HIDE DEF o
    <3> QED
      BY <1>0, <3>1, <3>2 DEF OpType
  <2>3. BarrierNow = "open" /\ BarrierNow' = "closing"
    BY <1>0, <2>1, <2>2 DEF BarrierNow
  <2>4. Barrier!Close
    BY <1>1, <1>3, <2>3 DEF Barrier!Close, BarrierNow, LoadingNow, HoldsNow
  <2> QED
    BY <2>4 DEF Barrier!Next
<1>5. CASE SuspendLock
  <2>1. op["storage"].pc = "lock" /\ op'["storage"].pc # "held" /\ UNCHANGED blocked
    <3>1. PICK e, p : e = 0 /\ p = "stop"
      OBVIOUS
    <3>2. \/ op' = [op EXCEPT !["storage"].d = op["storage"].d + 1]
          \/ op' = [op EXCEPT !["storage"].d = e, !["storage"].pc = p]
      BY <1>5, <3>1 DEF SuspendLock
    <3>3. op'["storage"].pc = op["storage"].pc \/ op'["storage"].pc = p
      BY <1>0, <3>2 DEF OpType, Call
    <3> QED
      BY <1>5, <3>1, <3>3 DEF SuspendLock
  <2>2. Unseen
    BY <1>0, <1>2, <2>1 DEF Unseen
  <2> QED
    BY <1>0, <2>2, QuietStep DEF Empty
<1>6. CASE SuspendEnd
  <2>1. op["storage"].pc = "unlock" /\ blocked /\ UNCHANGED blocked
    BY <1>6 DEF SuspendEnd, IInv, Places
  <2>2. CASE op["storage"].rc = "OK"
    <3>1. Goto("storage", "held")
      BY <1>6, <2>2 DEF SuspendEnd
    <3>2. op'["storage"].pc = "held"
      BY <1>0, <3>1, GotoOp DEF CallPcs
    <3>3. BarrierNow = "closing" /\ BarrierNow' = "closed"
      BY <1>0, <2>1, <3>2 DEF BarrierNow
    <3>4. \A d \in Decks : ~HoldsNow[d]
      <4>1. op["storage"].ret = "fin"
        BY <2>1 DEF IInv, Places
      <4>2. \A d \in Decks : Clean(d)
        BY <2>1, <2>2, <4>1 DEF IInv, Swept
      <4> QED
        BY <4>2, HoldsClean
    <3>5. \A d \in Decks : ~LoadingNow[d]
      <4>1. op["worker"].pc = "idle"
        BY <2>1, NoSweep
      <4> QED
        BY <4>1 DEF LoadingNow
    <3>6. Barrier!Closed
      BY <1>1, <1>3, <3>3, <3>4, <3>5 DEF Barrier!Closed, BarrierNow, LoadingNow, HoldsNow
    <3> QED
      BY <3>6 DEF Barrier!Next
  <2>3. CASE op["storage"].rc # "OK"
    <3>1. Goto("storage", "failed")
      BY <1>6, <2>3 DEF SuspendEnd
    <3>2. op'["storage"].pc = "failed"
      BY <1>0, <3>1, GotoOp DEF CallPcs
    <3>3. Unseen
      BY <1>0, <1>2, <2>1, <3>2 DEF Unseen
    <3> QED
      BY <1>0, <3>3, QuietStep DEF Empty
  <2> QED
    BY <2>2, <2>3
<1>7. CASE Resume
  <2>1. op["storage"].pc \in {"held", "failed"} /\ blocked /\ blocked' = FALSE
    BY <1>7 DEF Resume, IInv, Places
  <2>2. BarrierNow \in {"closed", "closing"} /\ BarrierNow' = "open"
    BY <1>0, <2>1 DEF BarrierNow
  <2>3. Barrier!Reopen
    BY <1>1, <1>3, <2>2 DEF Barrier!Reopen, BarrierNow, LoadingNow, HoldsNow
  <2> QED
    BY <2>3 DEF Barrier!Next
<1> QED
  BY <1>4, <1>5, <1>6, <1>7

\* A caller's entry: a LOAD passes an open barrier, a STOP does not show.
LEMMA EntryBarrier ==
  ASSUME IInv, ~forgot, NEW d \in Decks, LoadAdmit(d) \/ Stop(d)
  PROVE  [Barrier!Next]_(Barrier!vars)
<1>0. OpType /\ UNCHANGED <<blocked, slot, live, forgot>>
  BY DEF IInv, Types, LoadAdmit, Stop
<1>1. op'["storage"] = op["storage"]
  BY <1>0 DEF LoadAdmit, Stop, OpType, Callers
<1>2. CASE LoadAdmit(d)
  <2>1. op'["worker"].pc = "admit" /\ op'["worker"].d = d /\ op["worker"].pc = "idle"
    <3>1. PICK c \in Callers, r \in {"load", "stop"}, q \in {"admit", "stop"} :
             c = "worker" /\ r = "load" /\ q = "admit"
      BY DEF Callers
    <3>2. op' = [op EXCEPT ![c] = [Idle EXCEPT !.pc = q, !.d = d, !.ret = r]]
      BY <1>2, <3>1 DEF LoadAdmit
    <3> QED
      BY <1>2, <3>1, <3>2, EnterOp DEF LoadAdmit
  <2>2. LoadingNow' = [LoadingNow EXCEPT ![d] = TRUE] /\ ~LoadingNow[d]
    <3>1. PICK b \in BOOLEAN : b = TRUE
      OBVIOUS
    <3>2. /\ Loads(d)' <=> b
          /\ \A e \in Decks : e # d => (Loads(e)' <=> Loads(e))
      BY <2>1, <3>1 DEF Loads
    <3>3. LoadingNow' = [LoadingNow EXCEPT ![d] = b]
      BY <3>2, LoadingSet
    <3> QED
      BY <2>1, <3>1, <3>3 DEF LoadingNow
  <2>3. HoldsNow' = HoldsNow
    BY <1>0, HoldsSame DEF Clean, Empty
  <2>4. BarrierNow' = BarrierNow /\ BarrierNow = "open"
    BY <1>0, <1>1, <1>2 DEF BarrierNow, LoadAdmit
  <2>5. Barrier!Admit(d)
    BY <2>2, <2>3, <2>4 DEF Barrier!Admit, BarrierNow, LoadingNow, HoldsNow
  <2> QED
    BY <2>5 DEF Barrier!Next
<1>3. CASE Stop(d)
  <2>1. op'["worker"] = op["worker"]
    BY <1>0, <1>3 DEF Stop, OpType, Callers
  <2>2. Unseen
    BY <1>0, <1>1, <2>1 DEF Unseen
  <2> QED
    BY <1>0, <2>2, QuietStep DEF Empty
<1> QED
  BY <1>2, <1>3

\* When the promise is void everything is allowed.
LEMMA VoidStep ==
  ASSUME forgot, forgot'
  PROVE  [Barrier!Next]_(Barrier!vars)
<1>1. BarrierNow = "void" /\ BarrierNow' = "void"
  BY DEF BarrierNow
<1>2. LoadingNow' \in [Decks -> BOOLEAN] /\ HoldsNow' \in [Decks -> BOOLEAN]
  BY DEF LoadingNow, HoldsNow
<1>3. Barrier!Void
  BY <1>1, <1>2 DEF Barrier!Void, BarrierNow, LoadingNow, HoldsNow
<1> QED
  BY <1>3 DEF Barrier!Next

\* Every step of the engine is a step of the barrier or invisible to it.
LEMMA BarrierStep == Inv /\ [Next]_vars => [Barrier!Next]_(Barrier!vars)
<1> SUFFICES ASSUME Inv, [Next]_vars PROVE [Barrier!Next]_(Barrier!vars)
  OBVIOUS
<1>0. CASE forgot
  BY <1>0, ForgotStays, VoidStep
<1>1. CASE ~forgot
  <2>0. IInv
    BY <1>1 DEF Inv
  <2>1. CASE \E d \in Decks : LoadAdmit(d) \/ Stop(d)
    BY <1>1, <2>0, <2>1, EntryBarrier
  <2>2. CASE Suspend
    BY <1>1, <2>0, <2>2, SuspendBarrier
  <2>3. CASE \E c \in Callers : Step(c)
    BY <1>1, <2>0, <2>3, StopBarrier, LoadBarrier, AbortBarrier, SuspendBarrier DEF Step
  <2>4. CASE \E t \in live : TaskStep(t)
    BY <2>0, <2>4, TaskBarrier
  <2>5. CASE OutputEnd \/ OutputSignal \/ UNCHANGED vars
    <3>1. UNCHANGED <<blocked, slot, live, op, forgot>>
      BY <2>5 DEF OutputEnd, OutputSignal, vars
    <3>2. Unseen
      BY <3>1 DEF Unseen
    <3> QED
      BY <3>1, <3>2, QuietStep DEF Empty
  <2> QED
    BY <2>1, <2>2, <2>3, <2>4, <2>5 DEF Next
<1> QED
  BY <1>0, <1>1

\* The engine implements the barrier the storage service relies on: decks
\* come to hold media only inside an admitted LOAD, and once the removal owns
\* the barrier no deck holds a file, a buffer or a task -- until a load
\* forgets a task, which makes the promise void.
THEOREM EngineImplementsBarrier == Spec => BarrierSpec
<1>1. Init => Barrier!Init
  <2> SUFFICES ASSUME Init PROVE Barrier!Init
    OBVIOUS
  <2>1. op["worker"].pc = "idle" /\ live = {} /\ ~forgot /\ ~blocked
        /\ \A d \in Decks : slot[d].src = 0 /\ slot[d].buf = 0
    BY DEF Init, EmptySlot, Idle, Callers
  <2>2. BarrierNow = "open"
    BY <2>1 DEF BarrierNow
  <2>3. LoadingNow = [d \in Decks |-> FALSE]
    BY <2>1 DEF LoadingNow
  <2>4. HoldsNow = [d \in Decks |-> FALSE]
    <3>1. \A d \in Decks :
             ((\E t \in live : t.d = d) \/ slot[d].src # 0 \/ slot[d].buf # 0) = FALSE
      BY <2>1
    <3> QED
      BY <3>1 DEF HoldsNow
  <2> QED
    BY <2>2, <2>3, <2>4 DEF Barrier!Init, BarrierNow, LoadingNow, HoldsNow
<1>2. Inv /\ [Next]_vars => [Barrier!Next]_(Barrier!vars)
  BY BarrierStep
<1> QED
  BY <1>1, <1>2, Invariance, PTL DEF Spec, BarrierSpec, Barrier!Spec
=============================================================================
