---------------------------- MODULE IpolarFrames ----------------------------
(***************************************************************************)
(* The iPolar adapter (stage2_ipolar_adapter.c) and its frame store        *)
(* (stage2_ipolar_frames.c). One thread drives the adapter, libuvc's       *)
(* thread delivers frames, readers lease them. A reader looks at the       *)
(* leased pixels without the mutex. An operation of the store is one step: *)
(* the flag "initialized" that it reads before it locks is looked at again *)
(* under the mutex (a release does without, but its lease keeps the store),*)
(* and the buffers that destroy frees after it unlocked are those of a     *)
(* store that is already down and has no lease. Left out is a call that    *)
(* waits for the mutex while destroy destroys it.                          *)
(***************************************************************************)
EXTENDS Integers

CONSTANTS Slots,        \* the buffers of the store, 0 .. 2 in the code
          Readers,
          MaxFrames,    \* bound: frames delivered in a behaviour
          MaxSessions,  \* bound: sessions invalidated
          MaxInits      \* bound: calls of init that build a store

VARIABLES ctx, devh, streaming,  \* the adapter's libuvc state
          ready,        \* frames_initialized, and the store's own flag
          build,        \* which initialisation the buffers come from
          content,      \* per slot: the frame in its buffer
          refs,         \* per slot: references
          published,    \* published_slot, or -1
          session,      \* session_generation
          frames,       \* next_generation of all builds: names the frames
          view,         \* per reader: its view, or NoView
          wiped         \* whether init has cleared the counts of a leased store

adapter == <<ctx, devh, streaming>>
vars == <<ctx, devh, streaming, ready, build, content, refs, published, session, frames, view, wiped>>

NoFrame == 0
NoView == [frame |-> NoFrame, slot |-> 0, session |-> 0, build |-> 0]
Leased(r) == view[r].frame # NoFrame

\* The pixels a reader sees: those in its slot's buffer. The buffers of an
\* earlier build are not written any more.
Seen(r) == IF view[r].build = build THEN content[view[r].slot] ELSE view[r].frame
IsCurrent(r) == Leased(r) /\ ready /\ view[r].session = session

Init ==
    /\ ctx = FALSE /\ devh = FALSE /\ streaming = FALSE /\ ready = FALSE
    /\ build = 0 /\ published = -1 /\ session = 1 /\ frames = 0
    /\ content = [s \in Slots |-> NoFrame]
    /\ refs = [s \in Slots |-> 0]
    /\ view = [r \in Readers |-> NoView]
    /\ wiped = FALSE

----------------------------------------------------------------------------
(* The frame store.                                                        *)

\* memset, three buffers, generation 1: whatever the store held is gone.
StoreInit ==
    /\ ready' = TRUE
    /\ build' = build + 1
    /\ content' = [s \in Slots |-> NoFrame]
    /\ refs' = [s \in Slots |-> 0]
    /\ published' = -1 /\ session' = 1

Free == {s \in Slots : refs[s] = 0}

\* Into the first free buffer.
Fill(s) ==
    /\ \A other \in Free : s <= other
    /\ content' = [content EXCEPT ![s] = frames'] /\ published' = s
Drop == UNCHANGED <<content, published>>

\* (defect) without a free buffer the published one is written over
StorePublishOldest ==
    \/ \E s \in Free : Fill(s)
    \/ Free = {} /\ published # -1 /\ Fill(published)
    \/ Free = {} /\ published = -1 /\ Drop
StorePublish == (\E s \in Free : Fill(s)) \/ (Free = {} /\ Drop)

StoreInvalidate ==
    IF ready THEN published' = -1 /\ session' = session + 1
    ELSE UNCHANGED <<published, session>>

\* (defect) teardown does not look for leases
StoreNeverBusy == FALSE
\* Refused while a buffer is leased; otherwise the buffers are freed.
StoreBusy == \E s \in Slots : refs[s] # 0
StoreDestroy ==
    IF StoreBusy THEN UNCHANGED <<ready, published, content>>
    ELSE /\ ready' = FALSE /\ published' = -1
         /\ content' = [s \in Slots |-> NoFrame]

Acquire(r) ==
    /\ ready /\ ~Leased(r) /\ published # -1
    /\ refs' = [refs EXCEPT ![published] = @ + 1]
    /\ view' = [view EXCEPT ![r] = [frame |-> content[published], slot |-> published,
                                    session |-> session, build |-> build]]
    /\ UNCHANGED <<adapter, ready, build, content, published, session, frames, wiped>>

\* Refused, the view kept, when the slot of the view counts no reference.
Release(r) ==
    /\ Leased(r) /\ ready /\ refs[view[r].slot] # 0
    /\ refs' = [refs EXCEPT ![view[r].slot] = @ - 1]
    /\ view' = [view EXCEPT ![r] = NoView]
    /\ UNCHANGED <<adapter, ready, build, content, published, session, frames, wiped>>

----------------------------------------------------------------------------
(* The adapter.                                                            *)

\* The code asks for no context only: a store that an exit left up, because
\* it was leased, is built over.
AdapterInit ==
    /\ ~ctx
    /\ build < MaxInits
    /\ \/ StoreInit /\ ctx' = TRUE                 \* uvc_init succeeds
       \/ /\ build' = build + 1 /\ session' = 1    \* or the new store is destroyed
          /\ ready' = FALSE /\ published' = -1
          /\ content' = [s \in Slots |-> NoFrame]
          /\ refs' = [s \in Slots |-> 0]
          /\ UNCHANGED ctx
    /\ wiped' = (wiped \/ StoreBusy)
    /\ UNCHANGED <<devh, streaming, frames, view>>

\* uvc_open may fail, and nothing is kept then.
Open ==
    /\ ctx /\ ~devh
    /\ devh' = TRUE
    /\ UNCHANGED <<ctx, streaming, ready, build, content, refs, published, session, frames, view, wiped>>

\* The first half of a reconnect as well, which opens again at once.
Close ==
    /\ ready => session < MaxSessions
    /\ devh' = FALSE /\ streaming' = FALSE
    /\ StoreInvalidate
    /\ UNCHANGED <<ctx, ready, build, content, refs, frames, view, wiped>>

\* Close when a device is open, release the context, destroy the store
\* unless it is leased.
Exit ==
    /\ ready => session < MaxSessions
    /\ ctx' = FALSE /\ devh' = FALSE /\ streaming' = FALSE
    /\ IF ready THEN
           /\ IF devh THEN session' = session + 1 ELSE UNCHANGED session
           /\ IF StoreBusy
              THEN /\ UNCHANGED <<ready, content>>
                   /\ published' = IF devh THEN -1 ELSE published
              ELSE StoreDestroy
       ELSE UNCHANGED <<ready, content, published, session>>
    /\ UNCHANGED <<build, refs, frames, view, wiped>>

\* A stream that does not start invalidates the store.
Stream ==
    /\ devh /\ ~streaming /\ ready
    /\ \/ streaming' = TRUE /\ UNCHANGED <<published, session>>
       \/ session < MaxSessions /\ StoreInvalidate /\ UNCHANGED streaming
    /\ UNCHANGED <<ctx, devh, ready, build, content, refs, frames, view, wiped>>

\* A whole frame of the size asked for arrives; any other is ignored.
FrameCb ==
    /\ streaming /\ ready
    /\ frames < MaxFrames
    /\ frames' = frames + 1
    /\ StorePublish
    /\ UNCHANGED <<adapter, ready, build, refs, session, view, wiped>>

Next ==
    \/ AdapterInit \/ Open \/ Close \/ Exit \/ Stream \/ FrameCb
    \/ \E r \in Readers : Acquire(r) \/ Release(r)

Spec == Init /\ [][Next]_vars

----------------------------------------------------------------------------
(* The types.                                                              *)
TypeOK ==
    /\ {ctx, devh, streaming, ready, wiped} \subseteq BOOLEAN
    /\ build \in 0..MaxInits /\ frames \in 0..MaxFrames /\ session \in 1..MaxSessions
    /\ content \in [Slots -> 0..MaxFrames]
    /\ refs \in [Slots -> Nat]
    /\ published \in Slots \cup {-1}
    /\ view \in [Readers -> [frame : 0..MaxFrames, slot : Slots,
                             session : 0..MaxSessions, build : 0..MaxInits]]

(* The bytes a reader has leased stay the same until it releases them, as  *)
(* long as nobody calls init over a store that an exit left because it is  *)
(* leased (ipolar_adapter_exit, ipolar_adapter_init).                      *)
LeasedBytesKept == ~wiped => \A r \in Readers : Leased(r) => Seen(r) = view[r].frame

(* stage2_ipolar_adapter.c:112, "preserve state while consumers still      *)
(* lease": they stay the same. TLC refutes it: the next init preserves     *)
(* nothing.                                                                *)
LeasedBytesAlwaysKept == \A r \in Readers : Leased(r) => Seen(r) = view[r].frame

Register == INSTANCE FrameRegister WITH
    Frames <- 1..MaxFrames,
    latest <- IF published = -1 THEN NoFrame ELSE content[published],
    held <- [r \in Readers |-> IF Leased(r) THEN Seen(r) ELSE NoFrame],
    current <- [r \in Readers |-> IsCurrent(r)]

(* The store is a register of the latest frame with leases until then: no  *)
(* frame that is published, no end of a session and no teardown changes    *)
(* the pixels under a reader, and a view of a past session is never the    *)
(* current one (stage2_ipolar_frames.c).                                   *)
ImplementsRegister == Register!Init /\ [][Register!Next \/ wiped']_(Register!vars)
============================================================================
