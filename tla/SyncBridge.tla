----------------------------- MODULE SyncBridge -----------------------------
(***************************************************************************)
(* The database sessions of requests over a synchronous driver              *)
(* (db/sync_bridge.py, db/session.py): each request has one worker thread,  *)
(* on which every operation of its session runs, while all handlers share   *)
(* one event loop and all sessions one pool of connections.                 *)
(*                                                                         *)
(* A handler may be cancelled at any await, more than once: the operation   *)
(* it awaits is dropped if its thread has not begun it, and runs on if it   *)
(* has.  What a handler does between two awaits is one step.                *)
(***************************************************************************)
EXTENDS FiniteSets, Naturals

CONSTANTS
    Request,    \* requests that overlap
    PoolSize,   \* DATABASE_POOL_SIZE + DATABASE_POOL_MAX_OVERFLOW
    None        \* no value

\* execute, get, scalar, delete, flush and refresh are statements; commit and
\* rollback end the transaction.
Operation == {"open", "statement", "end", "close"}

VARIABLES
    pc,         \* where each handler is
    queued,     \* the operation its thread has not begun
    running,    \* the operation its thread is in
    connected,  \* its session holds a connection of the pool
    shutting,   \* the request whose shutdown(wait=True) holds the event loop
    unclosed    \* history: its close was cancelled before it began

handlerVars == <<pc, queued, shutting, unclosed>>
threadVars == <<running, connected>>
vars == <<handlerVars, threadVars>>

MoveTo(r, place) == pc' = [pc EXCEPT ![r] = place]

ThreadIdle(r) == queued[r] = None /\ running[r] = None

---------------------------------------------------------------------------
(* The event loop.  Nobody moves while a shutdown waits. *)

\* _run: the operation is submitted and awaited.
Submit(r, op, place) ==
    /\ shutting = None
    /\ queued' = [queued EXCEPT ![r] = op]
    /\ MoveTo(r, place)
    /\ UNCHANGED <<shutting, unclosed, threadVars>>

\* get_db_session, __aenter__
Enter(r) == pc[r] = "idle" /\ Submit(r, "open", "entering")

\* add and add_all, which block the loop, only change what the next flush or
\* commit writes, and are no step.
Operate(r) ==
    /\ pc[r] = "handling"
    /\ \E op \in {"statement", "end"} : Submit(r, op, "awaiting")

\* The operation's result reaches the handler.
Resume(r) ==
    /\ shutting = None
    /\ pc[r] \in {"entering", "awaiting"}
    /\ ThreadIdle(r)
    /\ MoveTo(r, "handling")
    /\ UNCHANGED <<queued, shutting, unclosed, threadVars>>

\* The handler returned or raised: __aexit__ closes the session.
Leave(r) == pc[r] = "handling" /\ Submit(r, "close", "closing")

\* Faulty variant: shutdown(wait=False).
NobodyWaits(r) == TRUE

\* shutdown(wait=True) returns when the thread has nothing left to do.
ThreadDone(r) == ThreadIdle(r)

\* __aexit__: the executor's shutdown, once close was awaited.
Shutdown(r) ==
    /\ shutting = None
    /\ pc[r] = "closing" /\ ThreadIdle(r)
    /\ MoveTo(r, "gone")
    /\ UNCHANGED <<queued, shutting, unclosed, threadVars>>

\* Cancelled in __aenter__: __aexit__ is not called.
CancelEnter(r) ==
    /\ shutting = None
    /\ pc[r] = "entering"
    /\ queued' = [queued EXCEPT ![r] = None]
    /\ MoveTo(r, "gone")
    /\ UNCHANGED <<shutting, unclosed, threadVars>>

\* Cancelled in an operation: __aexit__ submits the close behind it.
CancelOperation(r) == pc[r] = "awaiting" /\ Submit(r, "close", "closing")

\* Cancelled in __aexit__: the shutdown begins, and holds the loop.
CancelClose(r) ==
    /\ shutting = None
    /\ pc[r] = "closing"
    /\ queued' = [queued EXCEPT ![r] = None]
    /\ unclosed' = [unclosed EXCEPT ![r] = queued[r] # None]
    /\ shutting' = r
    /\ MoveTo(r, "shutting")
    /\ UNCHANGED threadVars

ShutdownEnds(r) ==
    /\ shutting = r
    /\ ThreadDone(r)
    /\ shutting' = None
    /\ MoveTo(r, "gone")
    /\ UNCHANGED <<queued, unclosed, threadVars>>

\* The last reference to a session that was not closed is gone: its connection is
\* rolled back and returned, from the thread of the event loop.
Collect(r) ==
    /\ shutting = None
    /\ pc[r] = "gone" /\ ThreadIdle(r) /\ connected[r]
    /\ connected' = [connected EXCEPT ![r] = FALSE]
    /\ UNCHANGED <<handlerVars, running>>

---------------------------------------------------------------------------
(* The request's thread. *)

Begin(r) ==
    /\ running[r] = None /\ queued[r] # None
    /\ running' = [running EXCEPT ![r] = queued[r]]
    /\ queued' = [queued EXCEPT ![r] = None]
    /\ UNCHANGED <<pc, shutting, unclosed, connected>>

Finish(r) == running' = [running EXCEPT ![r] = None]

\* The first statement takes a connection, and waits for one.
Connectable(r) == connected[r] \/ Cardinality({q \in Request : connected[q]}) < PoolSize

RunStatement(r) ==
    /\ running[r] = "statement"
    /\ Connectable(r)
    /\ connected' = [connected EXCEPT ![r] = TRUE]
    /\ Finish(r)
    /\ UNCHANGED handlerVars

\* The connection goes back to the pool with the transaction.
EndTransaction(r) ==
    /\ running[r] \in {"end", "close"}
    /\ connected' = [connected EXCEPT ![r] = FALSE]
    /\ Finish(r)
    /\ UNCHANGED handlerVars

OpenSession(r) ==
    /\ running[r] = "open"
    /\ Finish(r)
    /\ UNCHANGED <<handlerVars, connected>>

\* The database refuses, or DATABASE_POOL_TIMEOUT passed without a connection:
\* what ends the wait of a shutdown for a connection whose owner needs the loop.
StatementFails(r) ==
    /\ running[r] = "statement"
    /\ Finish(r)
    /\ UNCHANGED <<handlerVars, connected>>

---------------------------------------------------------------------------
Init ==
    /\ pc = [r \in Request |-> "idle"]
    /\ queued = [r \in Request |-> None]
    /\ running = [r \in Request |-> None]
    /\ connected = [r \in Request |-> FALSE]
    /\ shutting = None
    /\ unclosed = [r \in Request |-> FALSE]

Next ==
    \E r \in Request :
        \/ Enter(r) \/ Operate(r) \/ Resume(r) \/ Leave(r) \/ Shutdown(r)
        \/ CancelEnter(r) \/ CancelOperation(r) \/ CancelClose(r) \/ ShutdownEnds(r)
        \/ Collect(r)
        \/ Begin(r) \/ RunStatement(r) \/ EndTransaction(r) \/ OpenSession(r)
        \/ StatementFails(r)

Spec == Init /\ [][Next]_vars

---------------------------------------------------------------------------
(* Properties. *)

\* Whenever and however often it was cancelled, a request that has ended leaves
\* nothing running that touches the database, and has given its connection back -
\* unless its close was cancelled before it began, as it can be behind a running
\* operation: then the connection is left to the garbage collector of another thread.
SessionEndsWithRequest ==
    \A r \in Request : pc[r] = "gone" =>
        /\ {queued[r], running[r]} \subseteq {None, "open"}
        /\ connected[r] => unclosed[r]

=============================================================================
