----------------------------- MODULE ClientStream -----------------------------
(***************************************************************************)
(* ClientStream of src/src/proxy/h2_bridge.rs: the client's TLS stream as  *)
(* the h2 library drives it, with the two bounds the library lacks.        *)
(* Writes that stay pending with no flush completing fail; the close reads *)
(* off what the client still sends, until it closes or falls silent, for   *)
(* so much of it and so long.                                              *)
(*                                                                         *)
(* What is written lies in the TLS buffer, then in the kernel's, until the *)
(* client reads it: a write is taken while there is room in the first, a   *)
(* flush completes when all of it fits in the second.  Time passes in      *)
(* ticks; a task whose timer is due, or whose socket is ready, is polled   *)
(* before the next one.                                                    *)
(***************************************************************************)
EXTENDS Integers

CONSTANTS
    WriteBudgets,     \* write_idle: ticks, 0 for none
    KernelRoom,   \* pieces the kernel takes
    TlsRoom,      \* pieces both buffers take
    CloseBudget,  \* client_header_timeout
    LingerIdle,   \* LINGER_IDLE
    ReadOff,      \* CLIENT_BUF, in pieces
    MaxArrived    \* bound: pieces of the client's that wait to be read

ASSUME ClientStreamAssumption ==
    /\ WriteBudgets \subseteq Nat /\ KernelRoom \in Nat /\ TlsRoom \in Nat /\ KernelRoom < TlsRoom
    /\ CloseBudget \in Nat \ {0} /\ LingerIdle \in Nat \ {0} /\ ReadOff \in Nat \ {0} /\ MaxArrived \in Nat

VARIABLES
    writeIdle,   \* write_idle
    queued,      \* pieces written that the client has not read
    stalled,     \* a write was pending since the timer was reset, no flush completed since
    stallLeft,   \* ticks left on the stall timer
    closing,     \* "no", "shutdown", "linger", "closed"; "failed" by the stall timer
    closeLeft,   \* ticks left on close_deadline
    budgetLeft,  \* ticks left to linger_until
    discarded,   \* pieces read off
    arrived,     \* pieces of the client's that wait
    clientDone,  \* the client closed its side
    age,         \* ticks since the oldest pending poll no flush completed after, -1 if none
    closeAge,    \* ticks since the first poll of the shutdown
    silence      \* ticks since the linger began or last read something

stallVars  == <<writeIdle, queued, stalled, stallLeft, age>>
closeVars  == <<closeLeft, budgetLeft, discarded, closeAge, silence>>
peerVars   == <<arrived, clientDone>>
streamVars == <<writeIdle, queued, stalled, stallLeft, closing, closeLeft, budgetLeft, discarded,
                arrived, clientDone, age, closeAge, silence>>

LeastOf(a, b) == IF a < b THEN a ELSE b

-----------------------------------------------------------------------------
(* Writes. *)

\* poll_stall: a pending poll starts the clock unless it runs, and fails once
\* it ran out.
PollStall ==
    /\ age' = IF age = -1 THEN 0 ELSE age
    /\ IF writeIdle = 0 THEN UNCHANGED <<stalled, stallLeft, closing>>
       ELSE IF ~stalled THEN stalled' = TRUE /\ stallLeft' = writeIdle /\ UNCHANGED closing
       ELSE IF stallLeft = 0 THEN closing' = "failed" /\ UNCHANGED <<stalled, stallLeft>>
       ELSE UNCHANGED <<stalled, stallLeft, closing>>

\* A write taken is no progress: TLS buffers what the client never reads.
TakenIsProgress == stalled' = FALSE
Taken           == stalled' = stalled

PollWrite ==
    /\ closing = "no"
    /\ \/ queued < TlsRoom /\ queued' = queued + 1 /\ Taken /\ UNCHANGED <<stallLeft, closing, age>>
       \/ queued = TlsRoom /\ PollStall /\ UNCHANGED queued
    /\ UNCHANGED <<writeIdle, closeVars, peerVars>>

PollFlush ==
    /\ closing = "no"
    /\ \/ queued <= KernelRoom /\ stalled' = FALSE /\ age' = -1 /\ UNCHANGED <<stallLeft, closing>>
       \/ queued > KernelRoom /\ PollStall
    /\ UNCHANGED <<writeIdle, queued, closeVars, peerVars>>

-----------------------------------------------------------------------------
(* The close. *)

\* h2 flushes, then polls the shutdown: the first poll arms the deadline and
\* writes the close_notify.
StartShutdown ==
    /\ closing = "no" /\ queued <= KernelRoom
    /\ closing' = "shutdown" /\ closeLeft' = CloseBudget /\ closeAge' = 0
    /\ queued' = queued + 1 /\ stalled' = FALSE /\ age' = -1
    /\ UNCHANGED <<writeIdle, stallLeft, budgetLeft, discarded, silence, peerVars>>

ShutdownPending ==
    /\ closing = "shutdown" /\ queued > KernelRoom
    /\ closeLeft = 0 /\ closing' = "closed"
    /\ UNCHANGED <<stallVars, closeVars, peerVars>>

RestartFresh(by) == LingerIdle
\* Reading off: a read restarts the silence, never past the budget's end.
Restart(by) == LeastOf(LingerIdle, by)
ReadOffWaiting(restart, by) ==
    LET read == LeastOf(arrived, ReadOff - discarded)
    IN  /\ discarded' = discarded + read /\ arrived' = arrived - read
        /\ closeLeft' = IF restart \/ read > 0 THEN Restart(by) ELSE closeLeft
        /\ silence' = IF restart \/ read > 0 THEN 0 ELSE silence
        /\ closing' = IF discarded + read = ReadOff \/ clientDone \/ closeLeft' = 0 THEN "closed" ELSE "linger"

ShutdownDone ==
    /\ closing = "shutdown" /\ queued <= KernelRoom
    /\ budgetLeft' = closeLeft /\ ReadOffWaiting(TRUE, closeLeft)
    /\ UNCHANGED <<stallVars, closeAge, clientDone>>

PollLinger ==
    /\ closing = "linger" /\ (arrived > 0 \/ clientDone \/ closeLeft = 0)
    /\ ReadOffWaiting(FALSE, budgetLeft)
    /\ UNCHANGED <<stallVars, budgetLeft, closeAge, clientDone>>

-----------------------------------------------------------------------------
(* The client and the clock. *)

ClientReadsOn ==
    /\ closing \notin {"closed", "failed"} /\ queued > 0 /\ queued' = queued - 1
    /\ UNCHANGED <<writeIdle, stalled, stallLeft, closing, age, closeVars, peerVars>>
ClientStillSends ==
    /\ closing \in {"shutdown", "linger"} /\ ~clientDone /\ arrived < MaxArrived /\ arrived' = arrived + 1
    /\ UNCHANGED <<stallVars, closing, closeVars, clientDone>>
ClientCloses ==
    /\ closing \in {"shutdown", "linger"} /\ ~clientDone /\ clientDone' = TRUE
    /\ UNCHANGED <<stallVars, closing, closeVars, arrived>>

PollDue ==
    \/ closing = "no" /\ stalled /\ stallLeft = 0
    \/ closing = "shutdown" /\ (closeLeft = 0 \/ queued <= KernelRoom)
    \/ closing = "linger" /\ (closeLeft = 0 \/ arrived > 0 \/ clientDone)
Down(n) == IF n > 0 THEN n - 1 ELSE 0
TickStream ==
    /\ closing \notin {"closed", "failed"} /\ ~PollDue /\ (closing = "no" => age >= 0 /\ writeIdle > 0)
    /\ stallLeft' = Down(stallLeft) /\ closeLeft' = Down(closeLeft) /\ budgetLeft' = Down(budgetLeft)
    /\ age' = IF age >= 0 THEN age + 1 ELSE age
    /\ closeAge' = closeAge + (IF closing = "no" THEN 0 ELSE 1)
    /\ silence' = silence + (IF closing = "linger" THEN 1 ELSE 0)
    /\ UNCHANGED <<writeIdle, queued, stalled, closing, discarded, peerVars>>

StreamInit ==
    /\ writeIdle \in WriteBudgets
    /\ queued = 0 /\ stalled = FALSE /\ stallLeft = 0 /\ closing = "no" /\ closeLeft = 0 /\ budgetLeft = 0
    /\ discarded = 0 /\ arrived = 0 /\ clientDone = FALSE /\ age = -1 /\ closeAge = 0 /\ silence = 0

StreamNext ==
    \/ PollWrite \/ PollFlush \/ StartShutdown \/ ShutdownPending \/ ShutdownDone \/ PollLinger
    \/ ClientReadsOn \/ ClientStillSends \/ ClientCloses \/ TickStream

StreamSpec == StreamInit /\ [][StreamNext]_streamVars

-----------------------------------------------------------------------------
(* Properties. *)

\* A client that lets no flush complete for the write budget loses its
\* connection then, however many writes TLS still took, and no other client
\* does; the close ends within its budget, and cuts off a client that still
\* sends only after a whole buffer of it, a silence, or that budget.
StallsBounded ==
    /\ closing = "failed" => age >= writeIdle
    /\ closing = "no" /\ writeIdle > 0 => age <= writeIdle
    /\ closeAge <= CloseBudget /\ discarded <= ReadOff
    /\ closing = "closed" =>
          clientDone \/ discarded = ReadOff \/ silence >= LingerIdle \/ closeAge = CloseBudget
=============================================================================
