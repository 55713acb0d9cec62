--------------------------- MODULE FunctionSession --------------------------
(***************************************************************************)
(* One execution of the isolated document worker in a Function Compute     *)
(* session: the client that uploads a document in chunks, has it parsed,   *)
(* downloads the result and cleans up (FunctionComputeSessionDocument-     *)
(* Worker), and the single-threaded engine inside the function instance    *)
(* (FunctionRuntimeMain).  An invocation may fail for the client before or *)
(* after the engine has served it, and may also be served afterwards, when *)
(* the client has gone on.  The instance may be replaced, and the hour     *)
(* the engine gives a session may pass.                                    *)
(***************************************************************************)
EXTENDS Naturals, Sequences, FiniteSets

CONSTANTS
    InChunks,    \* functionSessionChunkCount of the document
    OutChunks,   \* and of the parsed result
    MaxStrays,   \* invocations given up by the client and still on their way
    None

VARIABLES
    pc,          \* the part of execute the client is in
    seq,         \* chunk of the upload or the download
    try,         \* invocation of that part: the first, the inspection, the repeat
    error,       \* terminalError
    output,      \* chunks downloaded
    spoiled,     \* cleanupFailed
    awaited,     \* the invocation the client waits for
    reply,       \* its response
    wire,        \* invocations not served yet
    session,     \* the session of the platform
    engine,      \* the engine's state
    parses,      \* the successful parses of the document
    outcome      \* what execute returned or threw

client == <<pc, seq, try, error, output, spoiled>>
calls == <<awaited, reply, wire>>
vars == <<client, calls, session, engine, parses, outcome>>

Tries == {"first", "inspect", "again"}

(* How a parse may fail: verifyAndScan, then runWorker. *)
ScanFailures == {"malware_detected", "scan_db_stale", "infrastructure_unavailable"}
WorkerFailures == {"parse_timeout", "malformed_document"}
Codes == ScanFailures \cup WorkerFailures \cup {"invalid_output", "hash_mismatch"}

NoState == [alive |-> FALSE]
NewState == [alive |-> TRUE, live |-> TRUE, input |-> <<>>, next |-> 0, complete |-> FALSE,
             parsed |-> FALSE, out |-> 0]

Init ==
    /\ pc = "read" /\ seq = 0 /\ try = "first" /\ error = None /\ output = <<>>
    /\ spoiled = FALSE /\ awaited = None /\ reply = None /\ wire = {}
    /\ session = "none" /\ engine = NoState /\ parses = 0 /\ outcome = None

-----------------------------------------------------------------------------
(* The client. *)

Failure(code) == [kind |-> "failure", code |-> code]
Transport == [kind |-> "transport"]

(* The requests of the protocol, what may answer one, and what execute     *)
(* returns or throws.                                                      *)
Parts == {"upload", "parse", "download", "cleanup"}
Invocations == [part : Parts, seq : Nat, try : Tries]
Refusals == {Transport} \cup {Failure(code) : code \in Codes}
States == [kind : {"state"}, phase : {"uploading", "uploaded", "parsed"}, next : Nat, out : Nat]
Responses ==
    Refusals \cup [kind : {"ack", "result"}] \cup [kind : {"chunk"}, chunk : Nat] \cup States
Outcomes ==
    [kind : {"document"}, chunks : Seq(Nat)]
    \cup {Failure(code) : code \in Codes \cup {"cleanup_incomplete"}}

(* invoke: part p, chunk s; an inspection asks on behalf of part and chunk. *)
Send(p, s, t) ==
    LET r == [part |-> p, seq |-> s, try |-> t] IN
    /\ pc' = p /\ seq' = s /\ try' = t
    /\ awaited' = r /\ reply' = None /\ wire' = wire \cup {r}

(* The finally block: clean up, and delete the session. *)
Terminal(code) == error' = code /\ Send("cleanup", 0, "first")

(* readInput, then createSession, which may fail with the session made. *)
ReadInput ==
    /\ pc = "read"
    /\ \/ pc' = "create" /\ UNCHANGED outcome
       \/ \E code \in {"hash_mismatch", "infrastructure_unavailable"} :
              pc' = "done" /\ outcome' = Failure(code)
    /\ UNCHANGED <<seq, try, error, output, spoiled, calls, session, engine, parses>>

CreateSession ==
    /\ pc = "create"
    /\ \/ session' = "active" /\ Send("upload", 0, "first") /\ UNCHANGED error
       \/ session' \in {"none", "active"} /\ Terminal("infrastructure_unavailable")
    /\ UNCHANGED <<output, spoiled, engine, parses, outcome>>

Received(p, t) == pc = p /\ try = t /\ reply # None

(* What follows a chunk that is uploaded. *)
Uploaded ==
    IF seq + 1 < InChunks THEN Send("upload", seq + 1, "first") ELSE Send("parse", 0, "first")

Downloaded ==
    IF seq + 1 < OutChunks THEN Send("download", seq + 1, "first") ELSE Send("cleanup", 0, "first")

(* A failure of the first invocation is inspected if it is one of the      *)
(* transport; any other, and any failure of the repeat, is terminal.       *)
Failed ==
    IF reply.kind = "transport"
    THEN IF try = "first" THEN Send(pc, seq, "inspect") /\ UNCHANGED error
         ELSE Terminal("infrastructure_unavailable")
    ELSE Terminal(reply.code)

Refused == reply.kind \in {"transport", "failure"}

(* upload *)
UploadAnswered ==
    /\ \E t \in {"first", "again"} : Received("upload", t)
    /\ IF Refused THEN Failed ELSE Uploaded /\ UNCHANGED error
    /\ UNCHANGED <<output, spoiled, session, engine, parses, outcome>>

UploadInspected ==
    /\ Received("upload", "inspect")
    /\ IF Refused THEN Failed
       ELSE \/ /\ reply.phase # "parsed" /\ reply.next = seq + 1
               /\ Uploaded /\ UNCHANGED error
            \/ /\ reply.phase # "parsed" /\ reply.next = seq
               /\ Send("upload", seq, "again") /\ UNCHANGED error
            \/ /\ reply.phase = "parsed" \/ reply.next \notin {seq, seq + 1}
               /\ Terminal("infrastructure_unavailable")
    /\ UNCHANGED <<output, spoiled, session, engine, parses, outcome>>

(* parse *)
ParseAnswered ==
    /\ \E t \in {"first", "again"} : Received("parse", t)
    /\ IF Refused THEN Failed ELSE Send("download", 0, "first") /\ UNCHANGED error
    /\ UNCHANGED <<output, spoiled, session, engine, parses, outcome>>

ParseInspected ==
    /\ Received("parse", "inspect")
    /\ IF Refused THEN Failed
       ELSE \/ reply.phase = "parsed" /\ Send("download", 0, "first") /\ UNCHANGED error
            \/ reply.phase = "uploaded" /\ Send("parse", 0, "again") /\ UNCHANGED error
            \/ reply.phase = "uploading" /\ Terminal("infrastructure_unavailable")
    /\ UNCHANGED <<output, spoiled, session, engine, parses, outcome>>

(* download *)
DownloadAnswered ==
    /\ \E t \in {"first", "again"} : Received("download", t)
    /\ IF Refused THEN Failed /\ UNCHANGED output
       ELSE Downloaded /\ output' = Append(output, reply.chunk) /\ UNCHANGED error
    /\ UNCHANGED <<spoiled, session, engine, parses, outcome>>

DownloadInspected ==
    /\ Received("download", "inspect")
    /\ IF Refused THEN Failed
       ELSE IF reply.phase = "parsed" /\ reply.out \in {seq, seq + 1}
       THEN Send("download", seq, "again") /\ UNCHANGED error
       ELSE Terminal("infrastructure_unavailable")
    /\ UNCHANGED <<output, spoiled, session, engine, parses, outcome>>

CleanedUp ==
    /\ Received("cleanup", "first")
    /\ spoiled' = (reply.kind # "ack") /\ pc' = "delete"
    /\ awaited' = None /\ reply' = None
    /\ UNCHANGED <<seq, try, error, output, wire, session, engine, parses, outcome>>

(* The end of execute.  A session that may be left hides the outcome. *)
Outcome(dirty) ==
    IF dirty THEN Failure("cleanup_incomplete")
    ELSE IF error # None THEN Failure(error)
    ELSE [kind |-> "document", chunks |-> output]

(* Mutant of DeleteSession: the error of the deletion is swallowed. *)
DeleteSessionQuietly ==
    /\ pc = "delete" /\ pc' = "done" /\ outcome' = Outcome(spoiled)
    /\ session' \in {session, "deleted"}
    /\ engine' = IF session' = "deleted" THEN NoState ELSE engine
    /\ UNCHANGED <<seq, try, error, output, spoiled, calls, parses>>

DeleteSession ==
    /\ pc = "delete" /\ pc' = "done"
    /\ \/ /\ session = "active" /\ session' = "deleted" /\ UNCHANGED spoiled
       \/ /\ spoiled' = TRUE
          /\ session' \in {session} \cup (IF session = "active" THEN {"deleted"} ELSE {})
    /\ engine' = IF session' = "deleted" THEN NoState ELSE engine
    /\ outcome' = Outcome(spoiled')
    /\ UNCHANGED <<seq, try, error, output, calls, parses>>

-----------------------------------------------------------------------------
(* The engine.  Respond ends the service of r; the response goes to the    *)
(* client if it still waits for r.                                         *)

Respond(r, answer) ==
    /\ wire' = wire \ {r}
    /\ reply' = IF awaited = r /\ reply = None THEN answer ELSE reply
    /\ UNCHANGED <<client, awaited, session, outcome>>

Serving(r) == r \in wire /\ session = "active"
Asks(r, part) == r.part = part /\ r.try # "inspect"

(* requiredState; State.assertLive. *)
Ready == engine.alive /\ engine.live
Missing ==
    IF engine.alive THEN Failure("infrastructure_unavailable") ELSE Failure("invalid_output")

(* Mutant of Expects: the sequence is not compared. *)
ExpectsAny(s, r) == ~s.parsed /\ s.next < InChunks

Expects(s, r) == ~s.parsed /\ s.next = r.seq

(* The file holds the document. *)
Whole(input) == input = [i \in 1..InChunks |-> i - 1]

(* SessionEngine.upload *)
Upload(r) ==
    LET begins == ~engine.alive /\ r.seq = 0
        s == IF begins THEN NewState ELSE engine
        input == Append(s.input, r.seq)
        last == s.next + 1 = InChunks
    IN
    /\ Serving(r) /\ Asks(r, "upload")
    /\ IF ~begins /\ ~Ready
       THEN UNCHANGED engine /\ Respond(r, Missing)
       ELSE IF ~Expects(s, r)
       THEN engine' = s /\ Respond(r, Failure("invalid_output"))
       ELSE /\ engine' = [s EXCEPT !.input = input, !.next = @ + 1,
                                   !.complete = last /\ Whole(input)]
            /\ Respond(r, IF last /\ ~Whole(input) THEN Failure("hash_mismatch")
                          ELSE [kind |-> "ack"])
    /\ UNCHANGED parses

(* Mutant of MayParse: a result that is there is parsed again. *)
MayParseAgain(s) == s.complete

MayParse(s) == s.complete /\ ~s.parsed

(* SessionEngine.parse: verifyAndScan, and the worker process. *)
Parse(r) ==
    /\ Serving(r) /\ Asks(r, "parse")
    /\ IF ~engine.alive \/ ~MayParse(engine)
       THEN Respond(r, Failure("invalid_output")) /\ UNCHANGED <<engine, parses>>
       ELSE IF ~engine.live
       THEN Respond(r, Missing) /\ UNCHANGED <<engine, parses>>
       ELSE \/ /\ engine' = [engine EXCEPT !.parsed = TRUE] /\ parses' = parses + 1
               /\ Respond(r, [kind |-> "result"])
            \/ /\ \E code \in ScanFailures \cup WorkerFailures :
                      Respond(r, Failure(code))
               /\ UNCHANGED <<engine, parses>>

(* Mutant of ChunkAt: the file is read on from where the last chunk ended. *)
ChunkAtCursor(s, r) == s.out

ChunkAt(s, r) == r.seq

(* SessionEngine.download: the chunk after the last one, or that one again. *)
Download(r) ==
    LET current == r.seq = engine.out
        replay == r.seq + 1 = engine.out
    IN
    /\ Serving(r) /\ Asks(r, "download")
    /\ IF ~engine.alive THEN Respond(r, Missing) /\ UNCHANGED engine
       ELSE IF ~engine.parsed \/ ~(current \/ replay) \/ r.seq >= OutChunks
       THEN Respond(r, Failure("invalid_output")) /\ UNCHANGED engine
       ELSE IF ~engine.live THEN Respond(r, Missing) /\ UNCHANGED engine
       ELSE /\ engine' = [engine EXCEPT !.out = IF current THEN @ + 1 ELSE @]
            /\ Respond(r, [kind |-> "chunk", chunk |-> ChunkAt(engine, r)])
    /\ UNCHANGED parses

Cleanup(r) ==
    /\ Serving(r) /\ Asks(r, "cleanup")
    /\ engine' = NoState
    /\ Respond(r, IF engine.alive THEN [kind |-> "ack"] ELSE Missing)
    /\ UNCHANGED parses

Phase(s) == IF s.parsed THEN "parsed" ELSE IF s.complete THEN "uploaded" ELSE "uploading"

Inspect(r) ==
    /\ Serving(r) /\ r.try = "inspect"
    /\ Respond(r, IF Ready
                  THEN [kind |-> "state", phase |-> Phase(engine), next |-> engine.next,
                        out |-> engine.out]
                  ELSE Missing)
    /\ UNCHANGED <<engine, parses>>

Handle == \E r \in wire : Upload(r) \/ Parse(r) \/ Download(r) \/ Cleanup(r) \/ Inspect(r)

-----------------------------------------------------------------------------
(* The platform. *)

(* Mutant of Lose: an invocation has no time limit. *)
LoseActive ==
    /\ awaited # None /\ reply # Transport /\ session # "none" /\ reply # None
    /\ reply' = Transport /\ wire' = wire \ {awaited}
    /\ UNCHANGED <<client, awaited, session, engine, parses, outcome>>

(* The invocation fails for the client: the read timeout, a response that  *)
(* is lost, no session.  The engine may serve it later all the same.       *)
Lose ==
    /\ awaited # None /\ reply # Transport
    /\ reply' = Transport
    /\ \/ wire' = wire \ {awaited}
       \/ awaited \in wire /\ Cardinality(wire) <= MaxStrays /\ UNCHANGED wire
    /\ UNCHANGED <<client, awaited, session, engine, parses, outcome>>

(* One hour has passed since the first upload. *)
Expire ==
    /\ engine.alive /\ engine.live /\ engine' = [engine EXCEPT !.live = FALSE]
    /\ UNCHANGED <<client, calls, session, parses, outcome>>

(* Another instance serves the session. *)
Replace ==
    /\ engine.alive /\ engine' = NoState
    /\ UNCHANGED <<client, calls, session, parses, outcome>>

Client ==
    \/ ReadInput \/ CreateSession \/ UploadAnswered \/ UploadInspected \/ ParseAnswered
    \/ ParseInspected \/ DownloadAnswered \/ DownloadInspected \/ CleanedUp \/ DeleteSession

Next == Client \/ Handle \/ Lose \/ Expire \/ Replace

(* The client's continuations run, and an invocation ends by its read      *)
(* timeout.  Nothing is assumed of the engine.                             *)
Fairness == WF_vars(Client) /\ WF_vars(Lose)

Spec == Init /\ [][Next]_vars /\ Fairness

-----------------------------------------------------------------------------
TypeOK ==
    /\ pc \in {"read", "create", "upload", "parse", "download", "cleanup", "delete", "done"}
    /\ seq \in 0..(InChunks + OutChunks) /\ try \in Tries /\ error \in Codes \cup {None}
    /\ wire \subseteq Invocations /\ Cardinality(wire) <= MaxStrays + 1
    /\ reply \in Responses \cup {None} /\ outcome \in Outcomes \cup {None}
    /\ session \in {"none", "active", "deleted"} /\ spoiled \in BOOLEAN
    /\ (awaited # None) = (pc \in Parts)
    /\ pc = "done" <=> outcome # None

(* The engine's file is the chunks in their order, each once, whatever was *)
(* repeated or came late: the hash of the whole never has to refuse them.  *)
InputInOrder ==
    engine.alive => engine.input = [i \in 1..engine.next |-> i - 1]

(* The client's buffer is the chunks of the result in their order, also    *)
(* when a lost response was replayed.                                      *)
OutputInOrder == output = [i \in 1..Len(output) |-> i - 1]

(* "never creates a second logical parse": whatever is reconciled, the     *)
(* document is parsed successfully at most once in a session.              *)
ParsedOnce == parses <= 1

(* execute returns a document, or the engine's own verdict, only if the    *)
(* session is gone; a document is a whole result that was parsed.          *)
ReturnedIsDeleted ==
    outcome # None =>
        /\ session = "active" => outcome = Failure("cleanup_incomplete")
        /\ outcome.kind = "document" => Len(outcome.chunks) = OutChunks /\ parses = 1

(* execute ends although no invocation need be answered.                   *)
ExecuteEnds == <>(pc = "done")

(* Lost, late and repeated invocations: both files are whole, the document *)
(* was parsed once, and nothing of it is left behind.                      *)
ExecutionSound ==
    TypeOK /\ InputInOrder /\ OutputInOrder /\ ParsedOnce /\ ReturnedIsDeleted
=============================================================================
