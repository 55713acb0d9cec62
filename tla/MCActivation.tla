----------------------------- MODULE MCActivation ---------------------------
(***************************************************************************)
(* The preparation of a course's first artifacts, and the channel that     *)
(* tells the study page how far it is.  The channel knows the preparation  *)
(* only as a snapshot that moves on, so the two are checked side by side:  *)
(* a behaviour is one of the first, or one of the second.                  *)
(***************************************************************************)
EXTENDS Activation

CONSTANTS Last, MaxReconnects, MaxPolls

ASSUME ActivationBounds ==
    /\ MaxAttempts \in Nat \ {0} /\ MaxOrdinal \in Nat /\ MaxGenerations \in Nat \ {0}
    /\ Last \in Nat \ {0} /\ MaxReconnects \in Nat /\ MaxPolls \in Nat
    /\ None \notin Nat

(* The placement quiz is registered and run like the chapter quiz. *)
MCKinds == <<"first_text_lesson", "chapter_quiz">>

VARIABLES progress, stream, wire, page, timers, poll, visible, shown, opened
VARIABLE part  \* the part whose behaviour this is

streamVars == <<progress, stream, wire, page, timers, poll, visible, shown, opened>>

Channel == INSTANCE ActivationStream

CourseAtRest ==
    /\ generation = 1 /\ ops = [id \in Ids |-> Absent] /\ artifacts = {}
    /\ chapter = [g \in Generations |-> "pending"]
    /\ tail = [p \in Processes |-> <<>>] /\ run = [p \in Processes |-> Idle]
    /\ faults = 0 /\ requests = 0 /\ lost = FALSE

ChannelAtRest ==
    /\ progress = Last /\ stream = [s \in Channel!Sources |-> None]
    /\ wire = [s \in Channel!Sources |-> <<>>]
    /\ page = [connection |-> "idle", source |-> None, generation |-> 0, live |-> FALSE,
               polls |-> 0, reconnects |-> 0, stopped |-> TRUE, terminal |-> TRUE]
    /\ timers = {} /\ poll = None /\ visible = TRUE /\ shown = Last /\ opened = {}

MCInit ==
    \/ part = "course" /\ Init /\ ChannelAtRest
    \/ part = "channel" /\ Channel!Init /\ CourseAtRest

MCNext ==
    \/ part = "course" /\ Next /\ UNCHANGED <<part, streamVars>>
    \/ part = "channel" /\ Channel!Next /\ UNCHANGED <<part, vars>>

MCSpec ==
    /\ MCInit /\ [][MCNext]_<<part, vars, streamVars>>
    /\ Fairness /\ Channel!Fairness

(* ActivationStream: one source is held, and nothing after the end. *)
SourceHeld == Channel!SourceHeld

(* ActivationStream: the page never goes back and learns the end. *)
ProgressTold == Channel!ProgressTold
=============================================================================
