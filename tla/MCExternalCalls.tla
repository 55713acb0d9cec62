--------------------------- MODULE MCExternalCalls --------------------------
(***************************************************************************)
(* What leaves the application: a logical call of the model router; and an *)
(* execution of the document worker, in a function session or by the       *)
(* bridge process on a local host.  They share nothing: a behaviour is one *)
(* of one of them, the others have ended, or have nothing to do.           *)
(*                                                                         *)
(* Bridge: three executions, lease calls one after the other.              *)
(***************************************************************************)
EXTENDS LocalBridge, Sequences

CONSTANTS Segments, MaxPolls, InChunks, OutChunks, MaxStrays, None

VARIABLES task, adapters, phase, selector, local, attempts, failure, work, late, jobs, trace,
          result
VARIABLES step, seq, try, error, output, spoiled, awaited, reply, wire, session, engine, parses,
          answer
VARIABLE part  \* the part whose behaviour this is

routerVars ==
    <<task, adapters, phase, selector, local, attempts, failure, work, late, jobs, trace, result>>
sessionVars ==
    <<step, seq, try, error, output, spoiled, awaited, reply, wire, session, engine, parses, answer>>

Router == INSTANCE ModelRouter
Session == INSTANCE FunctionSession WITH pc <- step, outcome <- answer

(* None is neither a record of a call nor a code. *)
ASSUME ExternalBounds ==
    /\ Segments \in Nat \ {0} /\ InChunks \in Nat \ {0} /\ OutChunks \in Nat \ {0}
    /\ MaxPolls \in Nat /\ MaxStrays \in Nat
    /\ None \notin Router!Traces
    /\ None \notin Session!Invocations \cup Session!Responses \cup Session!Outcomes
                  \cup Session!Codes

RouterEnded ==
    /\ task = "text" /\ adapters = [i \in 1..2 |-> CHOOSE d \in Router!Descriptors : TRUE]
    /\ phase = "done" /\ selector = 1 /\ local = 1 /\ attempts = <<>> /\ failure = None
    /\ work = Router!Idle /\ late = FALSE /\ jobs = {} /\ trace = None /\ result = None

SessionEnded ==
    /\ step = "done" /\ seq = 0 /\ try = "first" /\ error = None /\ output = <<>>
    /\ spoiled = FALSE /\ awaited = None /\ reply = None /\ wire = {} /\ session = "none"
    /\ engine = Session!NoState /\ parses = 0
    /\ answer = Session!Failure("infrastructure_unavailable")

ExternalInit ==
    \/ part = "router" /\ Router!Init /\ SessionEnded /\ Init
    \/ part = "session" /\ Session!Init /\ RouterEnded /\ Init
    \/ part = "bridge" /\ Init /\ RouterEnded /\ SessionEnded

ExternalNext ==
    \/ part = "router" /\ Router!Next /\ UNCHANGED <<part, sessionVars, vars>>
    \/ part = "session" /\ Session!Next /\ UNCHANGED <<part, routerVars, vars>>
    \/ part = "bridge" /\ Next /\ UNCHANGED <<part, routerVars, sessionVars>>

ExternalSpec ==
    /\ ExternalInit /\ [][ExternalNext]_<<part, routerVars, sessionVars, vars>>
    /\ Router!Fairness /\ Session!Fairness /\ Fairness

(* ModelRouter: nothing is submitted twice or returned untraced.       *)
(* FunctionSession: the files are whole and nothing is left behind.     *)
CallsSound == Router!CallSound /\ Session!ExecutionSound

(* ModelRouter and FunctionSession: the call and the execution end. *)
CallsEnd == Router!CallEnds /\ Session!ExecuteEnds
=============================================================================
