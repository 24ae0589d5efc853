---------------------------- MODULE WsClientRun ----------------------------
(***************************************************************************)
(* Who runs the io_context: WebSocketClient::run() and the thread it       *)
(* starts (src/src/okx_ws_client.cpp), one atomic access per step.         *)
(*                                                                         *)
(* Callers subscribe, which may post the connect work of a new session,    *)
(* and then call run().  The io thread runs the context until no work is   *)
(* left; a later run() has to notice that, join it and start another one.  *)
(* The destructor stops the context and joins the thread; nobody else uses *)
(* the client then.  The sessions are abstracted to the number of those    *)
(* that have an asynchronous operation outstanding.                        *)
(***************************************************************************)
EXTENDS Integers

CONSTANTS
    Callers,        \* threads that subscribe on one client
    MaxWork         \* bound: sessions alive at once

ASSUME MaxWorkAssumption == MaxWork \in Nat \ {0}

VARIABLES
    isRunning,      \* WebSocketClient::P::isRunning
    joinable,       \* ioThread.joinable()
    overwritten,    \* a joinable std::thread was assigned to: std::terminate
    io,             \* where the io thread is
    stopped,        \* ioContext.stopped()
    work,           \* sessions with operations outstanding
    pc,             \* pc[c]: where caller c is in subscribe() and run()
    halt,           \* where the destructor is
    undone          \* history: the io thread has restarted what the destructor stopped

context == <<stopped, work>>
thread == <<joinable, overwritten>>
destructor == <<halt, undone>>
clientVars == <<isRunning, thread, io, context, pc, destructor>>

ClientTypeOK ==
    /\ isRunning \in BOOLEAN /\ joinable \in BOOLEAN /\ overwritten \in BOOLEAN
    /\ io \in {"none", "start", "restart", "run", "returned", "break", "done"}
    /\ stopped \in BOOLEAN
    /\ work \in 0..MaxWork
    /\ pc \in [Callers -> {"idle", "posted", "claim", "join", "spawn"}]
    /\ halt \in {"no", "stopped", "joined"} /\ undone \in BOOLEAN

Goes(c, from, to) == pc[c] = from /\ pc' = [pc EXCEPT ![c] = to]

----------------------------------------------------------------------------
(* A caller *)

\* subscribe(): a session that lives takes the request, otherwise a new one is
\* made and its resolution posted.  A stale session may be replaced while it lives.
Post(c) ==
    /\ halt = "no" /\ Goes(c, "idle", "posted")
    /\ work' \in {work, work + 1} \cap 1..MaxWork
    /\ UNCHANGED <<isRunning, thread, io, stopped, destructor>>

\* run(): a context that is being run needs nothing ...
CheckRunning(c) ==
    /\ \/ isRunning /\ Goes(c, "posted", "idle")
       \/ ~isRunning /\ Goes(c, "posted", "claim")
    /\ UNCHANGED <<isRunning, thread, io, context, destructor>>

\* Mutant: run() that trusts whatever thread it finds.
JoinSkipped(c) ==
    /\ Goes(c, "join", "spawn")
    /\ UNCHANGED <<isRunning, thread, io, context, destructor>>

Claim(c) ==
    /\ Goes(c, "claim", "join")
    /\ isRunning' = TRUE
    /\ UNCHANGED <<thread, io, context, destructor>>

\* ... otherwise the last thread is joined, which waits for its end ...
Join(c) ==
    /\ Goes(c, "join", "spawn")
    /\ joinable => io = "done"
    /\ joinable' = FALSE
    /\ io' = IF joinable THEN "none" ELSE io
    /\ UNCHANGED <<isRunning, overwritten, context, destructor>>

\* ... and a new one is started.
Spawn(c) ==
    /\ Goes(c, "spawn", "idle")
    /\ IF joinable THEN overwritten' = TRUE /\ UNCHANGED <<joinable, io>>
       ELSE joinable' = TRUE /\ io' = "start" /\ UNCHANGED overwritten
    /\ UNCHANGED <<isRunning, context, destructor>>

----------------------------------------------------------------------------
(* The io thread *)

IoGoes(from, to) == io = from /\ io' = to

IoStart ==
    /\ IoGoes("start", "restart")
    /\ isRunning' = TRUE
    /\ UNCHANGED <<thread, context, pc, destructor>>

\* Mutant: a context that has run dry once is never restarted.
IoRestartSkipped ==
    /\ IoGoes("restart", "run")
    /\ UNCHANGED <<isRunning, thread, context, pc, destructor>>

IoRestart ==
    /\ IoGoes("restart", "run")
    /\ stopped' = FALSE
    /\ undone' = (undone \/ (stopped /\ halt = "stopped"))
    /\ UNCHANGED <<isRunning, thread, work, pc, halt>>

\* Mutant: both chains of a session give back the work of the session.
SessionEndsTwice ==
    /\ io = "run" /\ ~stopped /\ work > 0
    /\ work' = work - 2
    /\ stopped' = (work <= 2)
    /\ UNCHANGED <<isRunning, thread, io, pc, destructor>>

\* io_context::run: handlers of the sessions run; one session ends.  The context
\* stops itself with the last of its work.
SessionEnds ==
    /\ io = "run" /\ ~stopped /\ work > 0
    /\ work' = work - 1
    /\ stopped' = (work = 1)
    /\ UNCHANGED <<isRunning, thread, io, pc, destructor>>

\* A handler throws out of run(): the loop logs it and runs the context again.
\* The session of the handler has lost that operation, and maybe its last.  The
\* handler may have begun before the destructor stopped the context.
HandlerThrows ==
    /\ IoGoes("run", "start")
    /\ ~stopped \/ halt = "stopped"
    /\ work > 0 /\ work' \in {work, work - 1}
    /\ stopped' = (stopped \/ work' = 0)
    /\ UNCHANGED <<isRunning, thread, pc, destructor>>

\* run() finds the context stopped or without work, and returns.
IoReturns ==
    /\ IoGoes("run", "returned")
    /\ stopped \/ work = 0
    /\ stopped' = TRUE
    /\ UNCHANGED <<isRunning, thread, work, pc, destructor>>

\* isRunning is cleared before the loop is left ...
IoBreaks ==
    /\ IoGoes("returned", "break")
    /\ isRunning' = FALSE
    /\ UNCHANGED <<thread, context, pc, destructor>>

\* ... and once more after it.
IoDone ==
    /\ IoGoes("break", "done")
    /\ isRunning' = FALSE
    /\ UNCHANGED <<thread, context, pc, destructor>>

----------------------------------------------------------------------------
(* ~WebSocketClient *)

\* Mutant: the destructor joins the thread and leaves the context alone.
HaltNoStop ==
    /\ halt = "no" /\ \A c \in Callers : pc[c] = "idle"
    /\ halt' = "stopped"
    /\ UNCHANGED <<isRunning, thread, io, context, pc, undone>>

Halt ==
    /\ halt = "no" /\ \A c \in Callers : pc[c] = "idle"
    /\ halt' = "stopped" /\ stopped' = TRUE
    /\ UNCHANGED <<isRunning, thread, io, work, pc, undone>>

HaltJoin ==
    /\ halt = "stopped" /\ (joinable => io = "done")
    /\ halt' = "joined" /\ joinable' = FALSE
    /\ UNCHANGED <<isRunning, overwritten, io, context, pc, undone>>

----------------------------------------------------------------------------
(* Specification *)

ClientInit ==
    /\ isRunning = FALSE /\ joinable = FALSE /\ overwritten = FALSE
    /\ io = "none" /\ stopped = FALSE /\ work = 0
    /\ pc = [c \in Callers |-> "idle"]
    /\ halt = "no" /\ undone = FALSE

Running(c) == CheckRunning(c) \/ Claim(c) \/ Join(c) \/ Spawn(c)
IoThread == IoStart \/ IoRestart \/ IoReturns \/ IoBreaks \/ IoDone
Handlers == SessionEnds \/ HandlerThrows

ClientNext ==
    \/ \E c \in Callers : Post(c) \/ Running(c)
    \/ IoThread \/ Handlers
    \/ Halt \/ HaltJoin

ClientSpec == ClientInit /\ [][ClientNext]_clientVars

----------------------------------------------------------------------------
(* Properties *)

\* A thread is joined before another takes its place: run() never assigns to a
\* joinable std::thread, which would terminate the process.
ThreadNeverOverwritten == ~overwritten

\* Somebody runs the handlers of the sessions there are.
Served == io = "run" /\ ~stopped

\* With callers that subscribe again and again, whatever wakeup one run() has lost, a
\* later one makes good: "subscribe() creates the session and posts the connect work,
\* run() then services it" (subscribeOrders, okx_private_stream.cpp).
ServedByRetries == [](work > 0 => <>(Served \/ work = 0 \/ halt # "no"))

\* The destructor comes back, with sessions that would live for ever, unless the io
\* thread had not yet looked whether the context was stopped, or looks again because a
\* handler has thrown.
HaltEnds == halt = "stopped" ~> halt = "joined" \/ undone

=============================================================================
