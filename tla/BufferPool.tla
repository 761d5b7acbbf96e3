----------------------------- MODULE BufferPool -----------------------------
(***************************************************************************)
(* BufferPool and LoanedFrame of src/buffer.cpp.  Threads hold LoanedFrame *)
(* objects; loaning, releasing and detaching each run under the pool's     *)
(* mutex and are one step.  Buffers are numbered in the order of their     *)
(* allocation; 0 is the null buffer.                                       *)
(***************************************************************************)
EXTENDS Integers, Sequences, FiniteSets, SequencesExt

CONSTANTS
    Frames,         \* the LoanedFrame objects of the program
    Configs,        \* the pool configurations to consider
    Sizes,          \* the sizes loan_frame is called with
    SizeMax,        \* the largest std::size_t
    MaxLoans        \* bound: number of calls of loan_frame

ASSUME BufferAssumption ==
    /\ IsFiniteSet(Frames)
    /\ SizeMax \in Nat /\ MaxLoans \in Nat
    /\ Sizes \subseteq 0 .. SizeMax
    /\ Configs \subseteq [fixed : 0 .. SizeMax, buckets : SUBSET (0 .. SizeMax),
                          alignment : 1 .. SizeMax, max : 0 .. SizeMax]

VARIABLES
    config,         \* config_, with the alignment 0 replaced by 1
    size,           \* size of every buffer ever allocated
    available,      \* available_
    frame,          \* buffer and requested size of every LoanedFrame
    stats           \* stats_

vars == <<config, size, available, frame, stats>>

Null == [buffer |-> 0, size |-> 0]

AlignUp(value) ==
    LET rest == value % config.alignment
        up == value + config.alignment - rest
    IN  IF rest = 0 \/ up > SizeMax THEN value ELSE up

\* The smallest bucket that fits, or else the size itself; blocks only without buckets.
AllocationSize(requested) ==
    LET fitting == {b \in config.buckets : b >= requested}
    IN  AlignUp(IF config.buckets # {} THEN (IF fitting = {} THEN requested ELSE Min(fitting))
                ELSE Max({config.fixed, requested}))

\* Mutant: the budget is compared with the bytes in use.
CanAllocateActive(bytes) == config.max = 0 \/ stats.active_bytes + bytes <= config.max
CanAllocate(bytes) ==
    config.max = 0 \/ (stats.owned <= config.max /\ bytes <= config.max - stats.owned)

\* The sum of the sizes w[x]: the number of bytes <<x, n>>, each x having bytes 1 to w[x].
TotalSize(w) == Cardinality({byte \in (DOMAIN w) \X (1 .. SizeMax) : byte[2] <= w[byte[1]]})

SizeOf(b) == IF b = 0 THEN 0 ELSE size[b]
Bytes(buffers) == TotalSize([i \in DOMAIN buffers |-> SizeOf(buffers[i])])

\* refresh_available_stats, at the end of every operation.
Refresh(s) == [s EXCEPT !.available_count = Len(available'), !.available_bytes = Bytes(available')]

Loaned(s, bytes) ==
    [s EXCEPT !.loan = @ + 1, !.active = @ + 1, !.active_bytes = @ + bytes,
              !.high = Max({@, s.active_bytes + bytes})]

\* The free list is searched for the first buffer that is large enough.
LoanFrame(f, requested) ==
    LET reusable == {i \in DOMAIN available : size[available[i]] >= requested}
        at == Min(reusable)
        fresh == Len(size) + 1
        bytes == AllocationSize(requested)
    IN  /\ stats.loan + stats.exhausted < MaxLoans
        /\ frame[f] = Null
        /\ \/ /\ reusable # {}
              /\ available' = RemoveAt(available, at)
              /\ frame' = [frame EXCEPT ![f] = [buffer |-> available[at], size |-> requested]]
              /\ stats' = Refresh(Loaned([stats EXCEPT !.reuse = @ + 1], size[available[at]]))
              /\ UNCHANGED size
           \/ /\ reusable = {} /\ CanAllocate(bytes)
              /\ size' = Append(size, bytes)
              /\ frame' = [frame EXCEPT ![f] = [buffer |-> fresh, size |-> requested]]
              /\ UNCHANGED available
              /\ stats' = Refresh(Loaned([stats EXCEPT !.alloc = @ + 1, !.owned = @ + bytes], bytes))
           \/ /\ reusable = {} /\ ~CanAllocate(bytes)
              /\ UNCHANGED <<size, available, frame>>
              /\ stats' = Refresh([stats EXCEPT !.exhausted = @ + 1])
        /\ UNCHANGED config

\* A counter that would drop below zero stays at zero.
Less(n, by) == IF n >= by THEN n - by ELSE 0

\* Mutant: a released buffer stays counted as active.
SettledCountOnly(s, bytes) == [s EXCEPT !.active = Less(@, 1)]
Settled(s, bytes) == [s EXCEPT !.active = Less(@, 1), !.active_bytes = Less(@, bytes)]

ReturnBuffer(b) ==
    /\ available' = Append(available, b)
    /\ stats' = Refresh(Settled([stats EXCEPT !.release = @ + 1], SizeOf(b)))

HasBuffer(f) == frame[f].buffer # 0

Cleared(f) == Null

\* release and the destructor; a frame without buffer is left alone.
Release(f) ==
    /\ HasBuffer(f)
    /\ UNCHANGED <<config, size>>
    /\ ReturnBuffer(frame[f].buffer)
    /\ frame' = [frame EXCEPT ![f] = Cleared(f)]

\* The view leaves the pool; its buffer never comes back.
Detach(f) ==
    LET bytes == SizeOf(frame[f].buffer)
    IN  /\ HasBuffer(f)
        /\ frame' = [frame EXCEPT ![f] = Null]
        /\ UNCHANGED <<config, size, available>>
        /\ stats' = Refresh(Settled([stats EXCEPT !.detached = @ + 1, !.owned = Less(@, bytes)], bytes))

\* Move assignment: the target's buffer is released, the source's changes hands.
Move(to, from) ==
    /\ to # from
    /\ UNCHANGED <<config, size>>
    /\ IF HasBuffer(to) THEN ReturnBuffer(frame[to].buffer) ELSE UNCHANGED <<available, stats>>
    /\ frame' = [frame EXCEPT ![to] = frame[from], ![from] = Null]

Init ==
    /\ config \in Configs
    /\ size = <<>> /\ available = <<>>
    /\ frame = [f \in Frames |-> Null]
    /\ stats = [alloc |-> 0, reuse |-> 0, loan |-> 0, release |-> 0, detached |-> 0, exhausted |-> 0, owned |-> 0,
                active |-> 0, active_bytes |-> 0, high |-> 0, available_count |-> 0, available_bytes |-> 0]

Next ==
    \/ \E f \in Frames, n \in Sizes : LoanFrame(f, n)
    \/ \E f \in Frames : Release(f) \/ Detach(f)
    \/ \E f, g \in Frames : Move(f, g)

Spec == Init /\ [][Next]_vars

-----------------------------------------------------------------------------
Lent == {f \in Frames : frame[f].buffer # 0}
LentBytes == TotalSize([f \in Lent |-> size[frame[f].buffer]])

\* The types of the variables.
TypeOK ==
    /\ config \in Configs
    /\ size \in Seq(0 .. SizeMax)
    /\ available \in Seq(DOMAIN size)
    /\ frame \in [Frames -> [buffer : 0 .. Len(size), size : 0 .. SizeMax]]
    /\ stats \in [{"alloc", "reuse", "loan", "release", "detached", "exhausted", "owned", "active", "active_bytes",
                   "high", "available_count", "available_bytes"} -> Nat]

\* A buffer has one owner: two frames, or a frame and the free list, never share one, so a
\* reused buffer is never written through an older loan (return_buffer, LoanedFrame moves).
OneOwner ==
    /\ \A f, g \in Lent : f # g => frame[f].buffer # frame[g].buffer
    /\ \A i, j \in DOMAIN available : i # j => available[i] # available[j]
    /\ \A f \in Lent : ~Contains(available, frame[f].buffer)

\* The saturating decrements never saturate: every loan is active, released or detached.
LoansAccounted ==
    /\ stats.loan = stats.active + stats.release + stats.detached
    /\ stats.loan = stats.alloc + stats.reuse

\* A valid frame fits in its buffer, whichever buffer was reused or however far alignment
\* was rounded (FrameView::valid).
FrameFits == \A f \in Lent : frame[f].size <= size[frame[f].buffer]

\* The gauges are exact: what the pool owns is what is lent and what is on the free list, to
\* the byte, although no operation recounts what is lent; and every loan is in one place.
BytesBalanced ==
    /\ TypeOK /\ OneOwner /\ LoansAccounted
    /\ stats.active_bytes = LentBytes
    /\ stats.owned = stats.active_bytes + stats.available_bytes
    /\ stats.active = Cardinality(Lent)
    /\ stats.available_count = Len(available)

\* The budget max_bytes holds through alignment, buckets, reuse of larger buffers and
\* detaching (can_allocate), and each loan still fits in the buffer it was given.
BudgetHeld ==
    /\ config.max # 0 => stats.owned <= config.max
    /\ FrameFits
=============================================================================
