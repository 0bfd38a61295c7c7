------------------------------ MODULE JobEffect ------------------------------
(***************************************************************************)
(* What the job runtime promises about effects, without saying how: the    *)
(* rules of docs/EFFECT_AND_PROTOCOL_STANDARD.md as JobManager implements  *)
(* them when a journal is configured and unjournaled effects are off.      *)
(*                                                                         *)
(* An operation is accepted durably before it has an effect.  The process  *)
(* of a job is started at most once and each control is applied at most    *)
(* once, for ever: no restart, retry or storage fault gives a second one.  *)
(* A job is closed durably only after its process has ended, and refused   *)
(* durably (`spawn_failed') only if it never starts.                       *)
(***************************************************************************)
EXTENDS Naturals

CONSTANTS Key, Operation

VARIABLES
    accepted,   \* pairs <<k, o>> durably accepted
    starts,     \* starts[k]: processes ever started for job k
    controls,   \* controls[k][o]: times control o was applied to job k
    refused,    \* jobs durably recorded as never started
    ended,      \* jobs whose process has ended
    closed      \* jobs with a durable terminal

effectVars == <<accepted, starts, controls, refused, ended, closed>>

EffectInit ==
    /\ accepted = {}
    /\ starts = [k \in Key |-> 0]
    /\ controls = [k \in Key |-> [o \in Operation |-> 0]]
    /\ refused = {}
    /\ ended = {}
    /\ closed = {}

AcceptOperation(k, o) ==
    /\ <<k, o>> \notin accepted
    /\ accepted' = accepted \cup {<<k, o>>}
    /\ UNCHANGED <<starts, controls, refused, ended, closed>>

StartProcess(k) ==
    /\ \E o \in Operation : <<k, o>> \in accepted
    /\ starts[k] = 0
    /\ k \notin refused
    /\ starts' = [starts EXCEPT ![k] = 1]
    /\ UNCHANGED <<accepted, controls, refused, ended, closed>>

ApplyControl(k, o) ==
    /\ <<k, o>> \in accepted
    /\ starts[k] = 1
    /\ k \notin closed
    /\ controls[k][o] = 0
    /\ controls' = [controls EXCEPT ![k][o] = 1]
    /\ UNCHANGED <<accepted, starts, refused, ended, closed>>

RefuseJob(k) ==
    /\ starts[k] = 0
    /\ k \notin refused
    /\ refused' = refused \cup {k}
    /\ UNCHANGED <<accepted, starts, controls, ended, closed>>

\* A crash of the runtime ends several processes at once.
EndProcesses(S) ==
    /\ S # {}
    /\ \A k \in S : starts[k] = 1 /\ k \notin ended
    /\ ended' = ended \cup S
    /\ UNCHANGED <<accepted, starts, controls, refused, closed>>

CloseJob(k) ==
    /\ k \in ended \ closed
    /\ closed' = closed \cup {k}
    /\ UNCHANGED <<accepted, starts, controls, refused, ended>>

EffectNext ==
    \/ \E k \in Key, o \in Operation : AcceptOperation(k, o) \/ ApplyControl(k, o)
    \/ \E k \in Key : StartProcess(k) \/ RefuseJob(k) \/ CloseJob(k)
    \/ \E S \in SUBSET Key : EndProcesses(S)

EffectSpec == EffectInit /\ [][EffectNext]_effectVars
=============================================================================
