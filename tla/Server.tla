-------------------------------- MODULE Server --------------------------------
(***************************************************************************)
(* SocketServer.BaseServer: serve_forever() in one thread at a time and    *)
(* shutdown() in others.  The Event of the module it extends is            *)
(* __is_shut_down; shutdown_request is written and read without a lock.    *)
(* shutdown() is not called by the thread inside serve_forever(), for      *)
(* which it is documented to deadlock.                                     *)
(***************************************************************************)
EXTENDS Event, FiniteSets

VARIABLES
  shutdown_request,  \* self.__shutdown_request
  at,                \* where each thread is in serve_forever() or shutdown()
  beside,            \* history: the threads whose shutdown() found the loop that is under way
  missed             \* history: those beside which a loop has begun that was not told

serverVars == <<vars, shutdown_request, at, beside, missed>>

Serving == {t \in Threads : at[t] \in {"test", "poll", "reset", "set"}}
InShutdown == {t \in Threads : at[t] \in {"asked", "waiting"}}

\* Type invariant.
ServerTypeOK ==
  /\ CondTypeOK /\ flag \in BOOLEAN /\ calls \in 0 .. MaxCalls
  /\ shutdown_request \in BOOLEAN
  /\ at \in [Threads -> {"out", "test", "poll", "reset", "set", "asked", "waiting"}]
  /\ Cardinality(Serving) <= 1
  /\ beside \subseteq InShutdown /\ missed \subseteq InShutdown
  /\ waiting = {t \in Threads : at[t] = "waiting"}

ServerInit ==
  /\ Init
  /\ shutdown_request = FALSE
  /\ at = [t \in Threads |-> "out"]
  /\ beside = {} /\ missed = {}

Goto(t, from, to) == at[t] = from /\ at' = [at EXCEPT ![t] = to]

\* Bound of the model: the calls of the event that are still to come have room.
Room(n) ==
  calls + Cardinality(Serving) + Cardinality({t \in Threads : at[t] = "asked"}) + n <= MaxCalls

-------------------------------------------------------------------------------
\* Faulty: does not clear the event.
ServeUncleared(t) ==
  /\ Serving = {} /\ Room(2)
  /\ Goto(t, "out", "test")
  /\ missed' = IF shutdown_request THEN missed ELSE InShutdown
  /\ UNCHANGED <<vars, shutdown_request, beside>>

\* serve_forever() up to its loop.
Serve(t) ==
  /\ Serving = {} /\ Room(2)
  /\ Goto(t, "out", "test")
  /\ clear(t)
  /\ missed' = IF shutdown_request THEN missed ELSE InShutdown
  /\ UNCHANGED <<shutdown_request, beside>>

LoopTest(t) ==
  /\ Goto(t, "test", IF shutdown_request THEN "reset" ELSE "poll")
  /\ UNCHANGED <<vars, shutdown_request, beside, missed>>

\* select() and a request, or an exception.
LoopPoll(t) ==
  /\ \E to \in {"test", "reset"} : Goto(t, "poll", to)
  /\ UNCHANGED <<vars, shutdown_request, beside, missed>>

\* finally: the request is withdrawn, whoever made it, ...
LoopReset(t) ==
  /\ Goto(t, "reset", "set")
  /\ shutdown_request' = FALSE
  /\ UNCHANGED <<vars, beside, missed>>

\* ... and the event is set.
LoopSet(t) ==
  /\ Goto(t, "set", "out")
  /\ set(t)
  /\ beside' = {}
  /\ UNCHANGED <<shutdown_request, missed>>

Shutdown(t) ==
  /\ Room(1)
  /\ Goto(t, "out", "asked")
  /\ shutdown_request' = TRUE
  /\ beside' = IF Serving # {} THEN beside \cup {t} ELSE beside
  /\ UNCHANGED <<vars, missed>>

\* self.__is_shut_down.wait(): at once, or after the event has been set.
ShutdownWait(t) ==
  /\ IF flag THEN /\ Goto(t, "asked", "out")
                  /\ beside' = beside \ {t} /\ missed' = missed \ {t}
                  /\ UNCHANGED vars
     ELSE Goto(t, "asked", "waiting") /\ wait(t, FALSE) /\ UNCHANGED <<beside, missed>>
  /\ UNCHANGED shutdown_request

ShutdownReturn(t) ==
  /\ Goto(t, "waiting", "out")
  /\ WaitReturn(t)
  /\ beside' = beside \ {t} /\ missed' = missed \ {t}
  /\ UNCHANGED shutdown_request

Proceed(t) ==
  \/ LoopTest(t) \/ LoopPoll(t) \/ LoopReset(t) \/ LoopSet(t)
  \/ ShutdownWait(t) \/ ShutdownReturn(t)

ServerNext == \E t \in Threads : Serve(t) \/ Shutdown(t) \/ Proceed(t)

\* select() has a timeout, requests are handled, and threads run.
ServerFairness == \A t \in Threads : WF_serverVars(Proceed(t))

ServerSpec == ServerInit /\ [][ServerNext]_serverVars /\ ServerFairness

-------------------------------------------------------------------------------
\* shutdown() "blocks until the loop has finished" (SocketServer.py): it does not return
\* while the loop that it found is under way, however often loops end and begin.
ShutdownWaits ==
  [][\A t \in beside : at'[t] # "out"]_serverVars

\* It returns, whether the loop was under way, about to begin or about to end; except when
\* that loop has ended and the next one, which nobody told, has begun before the thread
\* came to wait: the request is one flag, and the loop that ends withdraws it.
ShutdownReturns ==
  \A t \in Threads : at[t] \in {"asked", "waiting"} /\ Serving # {} ~>
                       at[t] = "out" \/ t \in missed

\* shutdown() keeps both halves of its promise.
ShutdownDoes == ShutdownWaits /\ ShutdownReturns
===============================================================================
