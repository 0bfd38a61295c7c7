-------------------------- MODULE ToolBridgeProofs --------------------------
(***************************************************************************)
(* Proofs about ToolBridge: its safety properties hold for every set of    *)
(* callers, keys and requests and every limit of the registry.             *)
(*                                                                         *)
(* Every step of the bridge is a step of the registry or leaves it alone,  *)
(* so the registry's invariant is inherited; what remains is to tie the    *)
(* program points of the callers to the entries of their calls.            *)
(***************************************************************************)
EXTENDS ToolBridge, CallRegistryProofs

BridgeTypes ==
    /\ call \in [Caller -> [key : Key, request : Request]]
    /\ pc \in [Caller -> ProgramPoint]
    /\ generation \in [Caller -> Nat]
    /\ process \in [Caller -> {"none", "live", "reaped"}]
    /\ outcome \in [Caller -> Terminal \cup {None}]
    /\ spawns \in [Key -> Nat]

\* How a caller between the steps of an operation holds its shard.
ShardAt(p) ==
    CASE p = "insert"  -> "reserved"
      [] p = "store"   -> "allocated"
      [] p = "remove"  -> "checked"
      [] p = "release" -> "removed"
      [] OTHER         -> "free"

\* A held shard is held by exactly one caller, and the way it is held is the
\* one that caller's program point says.
ShardHolders ==
    /\ \A c \in Caller : ShardAt(pc[c]) # "free" => at[call[c].key] = ShardAt(pc[c])
    /\ \A k \in Key : at[k] # "free" =>
         \E c \in Caller : call[c].key = k /\ ShardAt(pc[c]) # "free"
    /\ \A c, d \in Caller :
         c # d /\ call[c].key = call[d].key /\ ShardAt(pc[c]) # "free"
           => ShardAt(pc[d]) = "free"

Unspawned == {"postcheck", "prespawn", "spawn"}

Ended == {"reaped", "finish", "complete"}

Granted(c) == pc[c] \in Unspawned \cup {"running"} \cup Ended

Closed(c) ==
    /\ EntryOf(c).dispatch = "terminal"
    /\ EntryOf(c).generation = generation[c]
    /\ EntryOf(c).terminal = outcome[c]

\* The grant of a call is held by one caller from the claim to the terminal,
\* and the entry says started exactly that long.
Grants ==
    /\ \A c \in Caller : Granted(c) =>
         /\ generation[c] # 0
         /\ EntryOf(c).dispatch = "started"
         /\ EntryOf(c).generation = generation[c]
    /\ \A c \in Caller : generation[c] # 0 =>
         Granted(c) \/ (pc[c] = "done" /\ Closed(c))
    /\ \A k \in Key : entries[k].dispatch = "started" =>
         \E c \in Caller : call[c].key = k /\ Granted(c)
    /\ \A c, d \in Caller :
         c # d /\ call[c].key = call[d].key => generation[c] = 0 \/ generation[d] = 0
    /\ \A c \in Caller : pc[c] \in Ended => outcome[c] \in Terminal

\* A process is only started under a grant, and once per grant.
SpawnsUnderGrant ==
    /\ \A k \in Key :
         /\ spawns[k] <= 1
         /\ spawns[k] # 0 => entries[k].dispatch \in {"started", "terminal"}
    /\ \A c \in Caller :
         /\ pc[c] \in Unspawned => spawns[call[c].key] = 0
         /\ process[c] = "live" => pc[c] = "running"

Responsible == {"precheck", "claim", "store", "rollback", "remove", "inhibit"}

\* An acceptance that could still be claimed is some caller's business.
AcceptancesOwned ==
    \A k \in Key : Claimable(entries[k]) =>
        \E c \in Caller : call[c].key = k /\ pc[c] \in Responsible

BridgeInv ==
    /\ RegistryInv
    /\ BridgeTypes
    /\ ShardHolders
    /\ Grants
    /\ SpawnsUnderGrant
    /\ AcceptancesOwned

-----------------------------------------------------------------------------

LEMMA InitBridgeInv == BridgeInit => BridgeInv
<1> SUFFICES ASSUME BridgeInit PROVE BridgeInv
  OBVIOUS
<1>1. PICK g \in {1, GenerationMax} : RegistryInitAt(g)
  BY DEF BridgeInit
<1>2. RegistryInv
  BY <1>1, InitAtInv, RegistryAssumption
<1>3. /\ \A k \in Key : entries[k].dispatch = "absent"
      /\ \A k \in Key : at[k] = "free"
  BY <1>1 DEF RegistryInitAt, NoEntry, NewEntry
<1>4. /\ pc = [c \in Caller |-> "idle"]
      /\ generation = [c \in Caller |-> 0]
      /\ process = [c \in Caller |-> "none"]
      /\ outcome = [c \in Caller |-> None]
      /\ spawns = [k \in Key |-> 0]
      /\ call \in [Caller -> [key : Key, request : Request]]
  BY DEF BridgeInit
<1>5. BridgeTypes
  BY <1>4 DEF BridgeTypes, ProgramPoint
<1>6. ShardHolders
  BY <1>3, <1>4 DEF ShardHolders, ShardAt
<1>7. Grants
  BY <1>3, <1>4 DEF Grants, Granted, Unspawned, Ended
<1>8. SpawnsUnderGrant /\ AcceptancesOwned
  BY <1>3, <1>4 DEF SpawnsUnderGrant, AcceptancesOwned, Claimable, Unspawned
<1> QED
  BY <1>2, <1>5, <1>6, <1>7, <1>8 DEF BridgeInv

(***************************************************************************)
(* The operations that keep an entry's dispatch leave every shard as it is *)
(* and make no acceptance claimable that was not.                          *)
(***************************************************************************)
Gentle ==
    /\ at' = at
    /\ \A k \in Key : KeepsDispatch(entries[k], entries'[k])

LEMMA UnchangedIsGentle ==
    ASSUME RegistryInv, UNCHANGED registryVars
    PROVE  Gentle
  BY DEF registryVars, Gentle, KeepsDispatch, RegistryInv, LostIsFenced

LEMMA EditIsGentle ==
    ASSUME RegistryInv, NEW k \in Key, Edit(k)
    PROVE  Gentle
<1>1. PICK f \in Entry : SetEntry(k, f) /\ KeepsDispatch(entries[k], f)
  BY EditForm
<1>2. /\ entries' = [entries EXCEPT ![k] = f]
      /\ at' = at
  BY <1>1 DEF SetEntry
<1>3. \A j \in Key : KeepsDispatch(entries[j], entries[j])
  BY DEF KeepsDispatch, RegistryInv, LostIsFenced
<1> QED
  BY <1>1, <1>2, <1>3 DEF Gentle, RegistryInv, TypeOK

LEMMA GentleFacts ==
    ASSUME Gentle
    PROVE  /\ at' = at
           /\ \A k \in Key :
                /\ entries'[k].dispatch = entries[k].dispatch
                /\ entries'[k].generation = entries[k].generation
                /\ entries'[k].terminal = entries[k].terminal
                /\ Claimable(entries'[k]) => Claimable(entries[k])
  BY DEF Gentle, KeepsDispatch, Claimable

(***************************************************************************)
(* A caller moves between two points at which it holds no shard, over a    *)
(* registry that is edited at most.                                        *)
(***************************************************************************)
LEMMA MoveKeepsInv ==
    ASSUME BridgeInv, RegistryInv', Gentle,
           NEW c \in Caller, NEW to \in ProgramPoint,
           pc' = [pc EXCEPT ![c] = to],
           ShardAt(pc[c]) = "free", ShardAt(to) = "free",
           UNCHANGED <<call, generation, spawns>>,
           process' \in [Caller -> {"none", "live", "reaped"}],
           \A d \in Caller : process'[d] = "live" =>
               process[d] = "live" /\ (d = c => to = "running"),
           outcome' \in [Caller -> Terminal \cup {None}],
           \A d \in Caller \ {c} : outcome'[d] = outcome[d],
           Granted(c) <=> to \in Unspawned \cup {"running"} \cup Ended,
           Granted(c) \/ outcome' = outcome,
           pc[c] = "done" => to = "done",
           to \in Unspawned => pc[c] \in Unspawned,
           to \in Ended => outcome'[c] \in Terminal,
           pc[c] \in Responsible => to \in Responsible
                                      \/ ~Claimable(entries'[call[c].key])
    PROVE  BridgeInv'
<1> USE GentleFacts
<1>1. BridgeTypes'
  BY DEF BridgeInv, BridgeTypes
<1>2. ShardHolders'
  BY DEF BridgeInv, BridgeTypes, ShardHolders
<1>3. \A d \in Caller : Granted(d)' <=> Granted(d)
  BY DEF BridgeInv, BridgeTypes, Granted
<1>4. \A d \in Caller : call[d].key \in Key
  BY DEF BridgeInv, BridgeTypes
<1>5. Grants'
  <2>1. \A d \in Caller : generation[d] # 0 /\ ~Granted(d) => pc'[d] = "done" /\ Closed(d)'
    <3> SUFFICES ASSUME NEW d \in Caller, generation[d] # 0, ~Granted(d)
                 PROVE  pc'[d] = "done" /\ Closed(d)'
      OBVIOUS
    <3>1. pc[d] = "done" /\ Closed(d)
      BY DEF BridgeInv, Grants
    <3>2. outcome'[d] = outcome[d]
      OBVIOUS
    <3> QED
      BY <1>4, <3>1, <3>2 DEF BridgeInv, BridgeTypes, Closed, EntryOf
  <2>2. \A d \in Caller : pc'[d] \in Ended => outcome'[d] \in Terminal
    BY DEF BridgeInv, BridgeTypes, Grants
  <2> QED
    BY <1>3, <1>4, <2>1, <2>2 DEF BridgeInv, Grants, EntryOf
<1>6. SpawnsUnderGrant'
  BY DEF BridgeInv, BridgeTypes, SpawnsUnderGrant
<1>7. AcceptancesOwned'
  BY DEF BridgeInv, BridgeTypes, AcceptancesOwned
<1> QED
  BY <1>1, <1>2, <1>5, <1>6, <1>7 DEF BridgeInv

\* A step of the registry, or of nobody, beside callers that stay.
LEMMA StayKeepsInv ==
    ASSUME BridgeInv, RegistryInv', Gentle,
           UNCHANGED <<call, pc, generation, process, outcome, spawns>>
    PROVE  BridgeInv'
<1> USE GentleFacts
<1>1. BridgeTypes' /\ ShardHolders'
  BY DEF BridgeInv, BridgeTypes, ShardHolders
<1>2. \A d \in Caller : call[d].key \in Key
  BY DEF BridgeInv, BridgeTypes
<1>3. Grants'
  BY <1>2 DEF BridgeInv, Grants, Granted, Closed, EntryOf
<1>4. SpawnsUnderGrant' /\ AcceptancesOwned'
  BY DEF BridgeInv, SpawnsUnderGrant, AcceptancesOwned
<1> QED
  BY <1>1, <1>3, <1>4 DEF BridgeInv

LEMMA InhibitFences ==
    ASSUME RegistryInv, NEW k \in Key, InhibitSpawn(k)
    PROVE  ~Claimable(entries'[k])
<1> DEFINE d == [entries[k] EXCEPT !.inhibited = TRUE]
           f == PushEvent(d, "SpawnInhibited")
<1>1. entries' = [entries EXCEPT ![k] = f] /\ entries \in [Key -> Entry]
  BY DEF InhibitSpawn, SetEntry, RegistryInv, TypeOK
<1>2. entries[k] \in Entry /\ Len(entries[k].history) <= MaxHistory
  BY DEF RegistryInv, TypeOK
<1>3. d \in Entry /\ d.history = entries[k].history /\ d.inhibited = TRUE
  BY <1>2 DEF Entry
<1>4. "SpawnInhibited" \in EventKind
  BY DEF EventKind
<1> HIDE DEF d
<1>5. f.inhibited = TRUE
  BY <1>2, <1>3, <1>4, PushEventFields
<1> QED
  BY <1>1, <1>5 DEF Claimable

(***************************************************************************)
(* The grant a caller holds is one the registry knows.                     *)
(***************************************************************************)
LEMMA GrantedGeneration ==
    ASSUME BridgeInv, NEW c \in Caller, Granted(c)
    PROVE  /\ generation[c] \in 1..GenerationMax
           /\ EntryOf(c).dispatch = "started"
           /\ EntryOf(c).generation = generation[c]
<1>1. EntryOf(c).dispatch = "started" /\ EntryOf(c).generation = generation[c]
  BY DEF BridgeInv, Grants
<1>2. call[c].key \in Key
  BY DEF BridgeInv, BridgeTypes
<1>3. EntryOf(c).generation \in 1..(nextGen - 1) /\ nextGen \in 1..GenerationMax
  BY <1>1, <1>2 DEF BridgeInv, RegistryInv, TypeOK, GenerationsAllocated, EntryOf
<1> QED
  BY <1>1, <1>3, RegistryAssumption

\* Everything the bridge does to the registry is one of its operations, with
\* arguments the registry expects.
LEMMA StepIsRegistryStep ==
    ASSUME BridgeInv, [Next]_vars
    PROVE  [RegistryNext]_registryVars
<1>1. \A c \in Caller : call[c].key \in Key /\ call[c].request \in Request
  BY DEF BridgeInv, BridgeTypes
<1>2. CASE UNCHANGED vars
  BY <1>2 DEF vars
<1>3. ASSUME NEW c \in Caller, CallerStep(c)
      PROVE  [RegistryNext]_registryVars
  <2> DEFINE k == call[c].key
             r == call[c].request
  <2>1. k \in Key /\ r \in Request
    BY <1>1
  <2>2. CASE BeginReserve(c)
    BY <2>1, <2>2 DEF BeginReserve, RegistryNext
  <2>3. CASE BeginInsert(c)
    BY <2>1, <2>3 DEF BeginInsert, RegistryNext
  <2>4. CASE \/ BeginExisting(c) \/ BeginRefused(c) \/ ClaimAnswered(c)
             \/ ClaimFailed(c) \/ PrespawnCheck(c) \/ RuntimeReturns(c)
    BY <2>4 DEF BeginExisting, BeginRefused, ClaimAnswered, ClaimFailed,
                PrespawnCheck, RuntimeReturns
  <2>5. CASE Precheck(c) \/ Postcheck(c) \/ Finish(c)
    BY <2>1, <2>5 DEF Precheck, Postcheck, Finish, PublishCancel, RegistryNext
  <2>6. CASE ClaimAllocate(c)
    BY <2>1, <2>6 DEF ClaimAllocate, RegistryNext
  <2>7. CASE ClaimStore(c)
    BY <2>1, <2>7 DEF ClaimStore, RegistryNext
  <2>8. CASE Rollback(c)
    BY <2>1, <2>8 DEF Rollback, RegistryNext
  <2>9. CASE RollbackDrop(c) \/ RollbackRelease(c)
    BY <2>1, <2>9 DEF RollbackDrop, RollbackRelease, RegistryNext
  <2>10. CASE Inhibit(c)
    BY <2>1, <2>10 DEF Inhibit, RegistryNext
  <2>11. CASE \E kind \in Terminal : EndUnspawned(c, kind) \/ ProcessEnds(c, kind)
    BY <2>11 DEF EndUnspawned, ProcessEnds
  <2>12. CASE Spawn(c)
    <3>1. generation[c] \in 1..GenerationMax
      BY <2>12, GrantedGeneration DEF Spawn, Goto, Granted, Unspawned
    <3> QED BY <2>1, <2>12, <3>1 DEF Spawn, RegistryNext
  <2>13. CASE RecordTerminal(c)
    <3>1. Granted(c) /\ pc[c] \in Ended
      BY <2>13 DEF RecordTerminal, Return, Goto, Granted, Ended
    <3>2. generation[c] \in 1..GenerationMax /\ outcome[c] \in Terminal
      BY <3>1, GrantedGeneration DEF BridgeInv, Grants
    <3> QED BY <2>1, <2>13, <3>2 DEF RecordTerminal, RegistryNext
  <2> QED
    BY <1>3, <2>2, <2>3, <2>4, <2>5, <2>6, <2>7, <2>8, <2>9, <2>10, <2>11, <2>12,
       <2>13 DEF CallerStep
<1>4. ASSUME NEW c \in Caller, Start(c) \/ SinkFails(c)
      PROVE  [RegistryNext]_registryVars
  BY <1>4 DEF Start, SinkFails
<1>5. CASE CancelTurn
  BY <1>5 DEF CancelTurn
<1>6. ASSUME NEW k \in Key, HostCancel(k)
      PROVE  [RegistryNext]_registryVars
  BY <1>6 DEF HostCancel, RegistryNext
<1> QED
  BY <1>2, <1>3, <1>4, <1>5, <1>6 DEF Next

(***************************************************************************)
(* The steps of a caller that edit the registry at most.                   *)
(***************************************************************************)
LEMMA PublishCancelForm ==
    ASSUME BridgeInv, NEW c \in Caller, NEW raised, NEW from, NEW to,
           PublishCancel(c, raised, from, to)
    PROVE  /\ Gentle
           /\ pc[c] = from
           /\ \/ pc' = [pc EXCEPT ![c] = to]
              \/ /\ pc' = [pc EXCEPT ![c] = "done"]
                 /\ EntryOf(c).dispatch = "absent"
           /\ UNCHANGED <<call, generation, spawns, process, outcome>>
<1>1. call[c].key \in Key /\ RegistryInv
  BY DEF BridgeInv, BridgeTypes
<1>2. UNCHANGED registryVars \/ RequestCancel(call[c].key)
  BY DEF PublishCancel
<1>3. Gentle
  BY <1>1, <1>2, UnchangedIsGentle, EditIsGentle DEF Edit
<1> QED
  BY <1>3 DEF PublishCancel, Return, Goto

LEMMA CheckKeepsInv ==
    ASSUME BridgeInv, RegistryInv', NEW c \in Caller,
           Precheck(c) \/ Postcheck(c) \/ Finish(c)
    PROVE  BridgeInv'
<1>1. call[c].key \in Key
  BY DEF BridgeInv, BridgeTypes
<1>2. outcome \in [Caller -> Terminal \cup {None}]
      /\ process \in [Caller -> {"none", "live", "reaped"}]
  BY DEF BridgeInv, BridgeTypes
<1>3. \A d \in Caller : process[d] = "live" => pc[d] = "running"
  BY DEF BridgeInv, SpawnsUnderGrant
<1>4. CASE Precheck(c)
  <2>1. PICK to \in {"claim", "done"} :
          /\ Gentle
          /\ pc[c] = "precheck"
          /\ pc' = [pc EXCEPT ![c] = to]
          /\ to = "done" => EntryOf(c).dispatch = "absent"
          /\ UNCHANGED <<call, generation, spawns, process, outcome>>
    BY <1>4, PublishCancelForm DEF Precheck
  <2>2. to = "done" => ~Claimable(entries'[call[c].key])
    BY <2>1, <1>1, GentleFacts DEF Claimable, EntryOf
  <2>3. /\ to \in ProgramPoint
        /\ ShardAt(pc[c]) = "free" /\ ShardAt(to) = "free"
        /\ ~Granted(c) /\ to \notin Unspawned \cup {"running"} \cup Ended
        /\ to = "claim" => to \in Responsible
    BY <2>1 DEF ProgramPoint, ShardAt, Granted, Unspawned, Ended, Responsible
  <2> QED
    BY <1>2, <1>3, <2>1, <2>2, <2>3, MoveKeepsInv
<1>5. CASE Postcheck(c) \/ Finish(c)
  <2>1. pc[c] = "postcheck" \/ pc[c] = "finish"
    BY <1>5, PublishCancelForm DEF Postcheck, Finish
  <2>2. Granted(c)
    BY <2>1 DEF Granted, Unspawned, Ended
  <2>3. EntryOf(c).dispatch # "absent"
    BY <2>2 DEF BridgeInv, Grants
  <2>4. PICK to \in {"prespawn", "complete"} :
          /\ Gentle
          /\ pc[c] = IF to = "prespawn" THEN "postcheck" ELSE "finish"
          /\ pc' = [pc EXCEPT ![c] = to]
          /\ UNCHANGED <<call, generation, spawns, process, outcome>>
    BY <1>5, <2>3, PublishCancelForm DEF Postcheck, Finish
  <2>5. /\ to \in ProgramPoint
        /\ ShardAt(pc[c]) = "free" /\ ShardAt(to) = "free"
        /\ to \in Unspawned \cup {"running"} \cup Ended
        /\ to \in Unspawned => pc[c] \in Unspawned
        /\ to \in Ended => pc[c] \in Ended
        /\ pc[c] \notin Responsible
    BY <2>4 DEF ProgramPoint, ShardAt, Granted, Unspawned, Ended, Responsible
  <2>6. to \in Ended => outcome[c] \in Terminal
    BY <2>5 DEF BridgeInv, Grants
  <2> QED
    BY <1>2, <1>3, <2>1, <2>2, <2>4, <2>5, <2>6, MoveKeepsInv
<1> QED BY <1>4, <1>5

LEMMA ReadKeepsInv ==
    ASSUME BridgeInv, RegistryInv', NEW c \in Caller,
           \/ Start(c) \/ BeginExisting(c) \/ BeginRefused(c)
           \/ ClaimAnswered(c) \/ ClaimFailed(c)
           \/ PrespawnCheck(c) \/ RuntimeReturns(c)
    PROVE  BridgeInv'
<1> DEFINE k == call[c].key
<1>1. /\ k \in Key
      /\ outcome \in [Caller -> Terminal \cup {None}]
      /\ process \in [Caller -> {"none", "live", "reaped"}]
  BY DEF BridgeInv, BridgeTypes
<1>2. \A d \in Caller : process[d] = "live" => pc[d] = "running"
  BY DEF BridgeInv, SpawnsUnderGrant
<1>3. Gentle
  <2>1. UNCHANGED registryVars
    BY DEF Start, BeginExisting, BeginRefused, ClaimAnswered, ClaimFailed,
           PrespawnCheck, RuntimeReturns
  <2> QED BY <2>1, UnchangedIsGentle DEF BridgeInv
<1>4. UNCHANGED <<call, generation, spawns, process, outcome>>
  BY DEF Start, BeginExisting, BeginRefused, ClaimAnswered, ClaimFailed,
         PrespawnCheck, RuntimeReturns
<1>5. CASE Start(c) \/ BeginExisting(c) \/ BeginRefused(c)
  <2>1. PICK to \in {"begin", "claim", "precheck", "done"} :
          pc[c] \in {"idle", "begin"} /\ pc' = [pc EXCEPT ![c] = to]
    BY <1>5 DEF Start, BeginExisting, BeginRefused, Return, Goto
  <2>2. /\ to \in ProgramPoint
        /\ ShardAt(pc[c]) = "free" /\ ShardAt(to) = "free"
        /\ ~Granted(c) /\ to \notin Unspawned \cup {"running"} \cup Ended
        /\ pc[c] \notin Responsible /\ pc[c] # "done"
    BY <2>1 DEF ProgramPoint, ShardAt, Granted, Unspawned, Ended, Responsible
  <2> QED
    BY <1>1, <1>2, <1>3, <1>4, <2>1, <2>2, MoveKeepsInv
<1>6. CASE ClaimAnswered(c) \/ ClaimFailed(c)
  <2>1. PICK to \in {"rollback", "inhibit", "done"} :
          pc[c] = "claim" /\ pc' = [pc EXCEPT ![c] = to]
            /\ (to = "done" => ~Claimable(entries[k]))
    BY <1>6 DEF ClaimAnswered, ClaimFailed, Return, Goto, Claimable, EntryOf
  <2>2. /\ to \in ProgramPoint
        /\ ShardAt(pc[c]) = "free" /\ ShardAt(to) = "free"
        /\ ~Granted(c) /\ to \notin Unspawned \cup {"running"} \cup Ended
        /\ to # "done" => to \in Responsible
    BY <2>1 DEF ProgramPoint, ShardAt, Granted, Unspawned, Ended, Responsible
  <2>3. to = "done" => ~Claimable(entries'[k])
    BY <1>1, <1>3, <2>1, GentleFacts
  <2> QED
    BY <1>1, <1>2, <1>3, <1>4, <2>1, <2>2, <2>3, MoveKeepsInv
<1>7. CASE PrespawnCheck(c) \/ RuntimeReturns(c)
  <2>1. PICK to \in {"spawn", "finish"} :
          pc[c] = (IF to = "spawn" THEN "prespawn" ELSE "reaped")
            /\ pc' = [pc EXCEPT ![c] = to]
    BY <1>7 DEF PrespawnCheck, RuntimeReturns, Goto
  <2>2. /\ to \in ProgramPoint
        /\ ShardAt(pc[c]) = "free" /\ ShardAt(to) = "free"
        /\ Granted(c) /\ to \in Unspawned \cup {"running"} \cup Ended
        /\ to \in Unspawned => pc[c] \in Unspawned
        /\ to \in Ended => pc[c] \in Ended
        /\ pc[c] \notin Responsible /\ pc[c] # "done" /\ pc[c] # "running"
    BY <2>1 DEF ProgramPoint, ShardAt, Granted, Unspawned, Ended, Responsible
  <2>3. to \in Ended => outcome[c] \in Terminal
    BY <2>2 DEF BridgeInv, Grants
  <2> QED
    BY <1>1, <1>2, <1>3, <1>4, <2>1, <2>2, <2>3, MoveKeepsInv
<1> QED BY <1>5, <1>6, <1>7

LEMMA InhibitKeepsInv ==
    ASSUME BridgeInv, RegistryInv', NEW c \in Caller, Inhibit(c)
    PROVE  BridgeInv'
<1> DEFINE k == call[c].key
<1>1. /\ k \in Key
      /\ outcome \in [Caller -> Terminal \cup {None}]
      /\ process \in [Caller -> {"none", "live", "reaped"}]
  BY DEF BridgeInv, BridgeTypes
<1>2. \A d \in Caller : process[d] = "live" => pc[d] = "running"
  BY DEF BridgeInv, SpawnsUnderGrant
<1>3. /\ pc[c] = "inhibit" /\ pc' = [pc EXCEPT ![c] = "done"]
      /\ UNCHANGED <<call, generation, spawns, process, outcome>>
  BY DEF Inhibit, Return, Goto
<1>4. Gentle /\ ~Claimable(entries'[k])
  <2>1. CASE InhibitSpawn(k)
    BY <1>1, <2>1, EditIsGentle, InhibitFences DEF Edit, BridgeInv
  <2>2. CASE UNCHANGED registryVars
               /\ (EntryOf(c).dispatch # "accepted" \/ EntryOf(c).inhibited)
    BY <2>2, UnchangedIsGentle DEF registryVars, Claimable, EntryOf, BridgeInv
  <2> QED BY <2>1, <2>2 DEF Inhibit
<1>5. /\ "done" \in ProgramPoint
      /\ ShardAt(pc[c]) = "free" /\ ShardAt("done") = "free"
      /\ ~Granted(c) /\ "done" \notin Unspawned \cup {"running"} \cup Ended
  BY <1>3 DEF ProgramPoint, ShardAt, Granted, Unspawned, Ended
<1> QED
  BY <1>1, <1>2, <1>3, <1>4, <1>5, MoveKeepsInv

LEMMA EndKeepsInv ==
    ASSUME BridgeInv, RegistryInv', NEW c \in Caller, NEW kind \in Terminal,
           EndUnspawned(c, kind) \/ ProcessEnds(c, kind)
    PROVE  BridgeInv'
<1>1. Gentle
  <2>1. UNCHANGED registryVars
    BY DEF EndUnspawned, ProcessEnds
  <2> QED BY <2>1, UnchangedIsGentle DEF BridgeInv
<1>2. /\ pc[c] \in {"prespawn", "spawn", "running"}
      /\ pc' = [pc EXCEPT ![c] = "reaped"]
      /\ outcome' = [outcome EXCEPT ![c] = kind]
      /\ UNCHANGED <<call, generation, spawns>>
      /\ process' = process \/ process' = [process EXCEPT ![c] = "reaped"]
      /\ pc[c] = "running" => process' = [process EXCEPT ![c] = "reaped"]
  BY DEF EndUnspawned, ProcessEnds, Goto
<1>3. /\ outcome' \in [Caller -> Terminal \cup {None}]
      /\ outcome'[c] \in Terminal
      /\ \A d \in Caller \ {c} : outcome'[d] = outcome[d]
      /\ process' \in [Caller -> {"none", "live", "reaped"}]
  BY <1>2 DEF BridgeInv, BridgeTypes
<1>4. \A d \in Caller : process'[d] = "live" => process[d] = "live" /\ d # c
  <2>1. \A d \in Caller : process[d] = "live" => pc[d] = "running"
    BY DEF BridgeInv, SpawnsUnderGrant
  <2> QED BY <1>2, <2>1 DEF BridgeInv, BridgeTypes
<1>5. /\ "reaped" \in ProgramPoint
      /\ ShardAt(pc[c]) = "free" /\ ShardAt("reaped") = "free"
      /\ Granted(c) /\ "reaped" \in Ended /\ "reaped" \notin Unspawned
      /\ pc[c] \notin Responsible /\ pc[c] # "done"
  BY <1>2 DEF ProgramPoint, ShardAt, Granted, Unspawned, Ended, Responsible
<1> QED
  BY <1>1, <1>2, <1>3, <1>4, <1>5, MoveKeepsInv

\* The spawn: no other caller of this call holds a grant, so none is about to
\* spawn as well.
LEMMA SpawnKeepsInv ==
    ASSUME BridgeInv, RegistryInv', NEW c \in Caller, Spawn(c)
    PROVE  BridgeInv'
<1> DEFINE k == call[c].key
<1>1. /\ pc[c] = "spawn"
      /\ pc' = [pc EXCEPT ![c] = "running"]
      /\ process' = [process EXCEPT ![c] = "live"]
      /\ spawns' = [spawns EXCEPT ![k] = @ + 1]
      /\ UNCHANGED <<call, generation, outcome>>
  BY DEF Spawn, Goto
<1>2. Granted(c) /\ pc[c] \in Unspawned
  BY <1>1 DEF Granted, Unspawned
<1>3. /\ generation[c] \in 1..GenerationMax
      /\ EntryOf(c).dispatch = "started"
      /\ EntryOf(c).generation = generation[c]
  BY <1>2, GrantedGeneration
<1>4. \A d \in Caller : call[d].key \in Key
  BY DEF BridgeInv, BridgeTypes
<1>5. Gentle
  BY <1>3, <1>4, UnchangedIsGentle, EditIsGentle DEF Spawn, Edit, BridgeInv
<1> USE <1>5, GentleFacts
<1>6. /\ ShardAt(pc[c]) = "free" /\ ShardAt("running") = "free"
      /\ "running" \in ProgramPoint
      /\ pc[c] \notin Responsible
      /\ "running" \notin Ended /\ "running" \notin Unspawned
  BY <1>1 DEF ShardAt, ProgramPoint, Responsible, Ended, Unspawned
<1>7. BridgeTypes'
  BY <1>1, <1>6 DEF BridgeInv, BridgeTypes
<1>8. ShardHolders'
  BY <1>1, <1>6 DEF BridgeInv, BridgeTypes, ShardHolders
<1>9. Grants'
  <2>1. \A d \in Caller : Granted(d)' <=> Granted(d)
    BY <1>1, <1>2, <1>6 DEF BridgeInv, BridgeTypes, Granted
  <2>2. \A d \in Caller : generation[d] # 0 /\ ~Granted(d) => pc'[d] = "done" /\ Closed(d)'
    BY <1>1, <1>2, <1>4 DEF BridgeInv, BridgeTypes, Grants, Closed, EntryOf
  <2>3. \A d \in Caller : pc'[d] \in Ended => outcome'[d] \in Terminal
    BY <1>1, <1>6 DEF BridgeInv, BridgeTypes, Grants
  <2> QED
    BY <1>1, <1>4, <2>1, <2>2, <2>3 DEF BridgeInv, Grants, EntryOf
<1>10. SpawnsUnderGrant'
  <2>1. spawns[k] = 0
    BY <1>2 DEF BridgeInv, SpawnsUnderGrant
  <2>2. \A d \in Caller : d # c /\ call[d].key = k => pc[d] \notin Unspawned
    BY <1>2 DEF BridgeInv, Grants, Granted
  <2>3. \A j \in Key :
          /\ spawns'[j] <= 1
          /\ spawns'[j] # 0 => entries'[j].dispatch \in {"started", "terminal"}
    BY <1>1, <1>3, <1>4, <2>1 DEF BridgeInv, BridgeTypes, SpawnsUnderGrant, EntryOf
  <2>4. \A d \in Caller : pc'[d] \in Unspawned => spawns'[call[d].key] = 0
    BY <1>1, <1>4, <1>6, <2>2 DEF BridgeInv, BridgeTypes, SpawnsUnderGrant
  <2>5. \A d \in Caller : process'[d] = "live" => pc'[d] = "running"
    BY <1>1 DEF BridgeInv, BridgeTypes, SpawnsUnderGrant
  <2> QED
    BY <1>1, <2>3, <2>4, <2>5 DEF SpawnsUnderGrant
<1>11. AcceptancesOwned'
  BY <1>1, <1>6 DEF BridgeInv, BridgeTypes, AcceptancesOwned
<1> QED
  BY <1>7, <1>8, <1>9, <1>10, <1>11 DEF BridgeInv

(***************************************************************************)
(* The steps that take a shard for the second half of an operation, or     *)
(* leave it.                                                               *)
(***************************************************************************)
LEMMA ShardStep ==
    ASSUME BridgeInv, NEW c \in Caller, NEW to \in ProgramPoint,
           pc' = [pc EXCEPT ![c] = to],
           at[call[c].key] = ShardAt(pc[c]),
           at' = [at EXCEPT ![call[c].key] = ShardAt(to)],
           UNCHANGED call
    PROVE  ShardHolders'
<1> DEFINE k == call[c].key
<1>1. \A d \in Caller : call[d].key \in Key
  BY DEF BridgeInv, BridgeTypes
<1>2. at \in [Key -> {"free", "reserved", "allocated", "checked", "removed"}]
  BY DEF BridgeInv, RegistryInv, TypeOK
<1>3. \A d \in Caller : d # c /\ call[d].key = k => ShardAt(pc[d]) = "free"
  BY DEF BridgeInv, ShardHolders
<1>4. \A d \in Caller : d # c => pc'[d] = pc[d]
  BY DEF BridgeInv, BridgeTypes
<1>5. pc'[c] = to /\ at'[k] = ShardAt(to)
  BY <1>1, <1>2 DEF BridgeInv, BridgeTypes
<1>6. \A j \in Key : j # k => at'[j] = at[j]
  BY <1>2
<1>7. \A d \in Caller : ShardAt(pc'[d]) # "free" => at'[call[d].key] = ShardAt(pc'[d])
  BY <1>1, <1>3, <1>4, <1>5, <1>6 DEF BridgeInv, ShardHolders
<1>8. ASSUME NEW j \in Key, at'[j] # "free"
      PROVE  \E d \in Caller : call[d].key = j /\ ShardAt(pc'[d]) # "free"
  <2>1. CASE j = k
    BY <1>5, <1>8, <2>1
  <2>2. CASE j # k
    BY <1>4, <1>6, <1>8, <2>2 DEF BridgeInv, ShardHolders
  <2> QED BY <2>1, <2>2
<1>9. \A b, d \in Caller :
        b # d /\ call[b].key = call[d].key /\ ShardAt(pc'[b]) # "free"
          => ShardAt(pc'[d]) = "free"
  BY <1>3, <1>4, <1>5 DEF BridgeInv, ShardHolders
<1> QED
  BY <1>7, <1>8, <1>9 DEF ShardHolders

\* The ones around an entry that has not been started.
LEMMA SlotKeepsInv ==
    ASSUME BridgeInv, RegistryInv', NEW c \in Caller, NEW to \in ProgramPoint,
           pc' = [pc EXCEPT ![c] = to],
           at[call[c].key] = ShardAt(pc[c]),
           at' = [at EXCEPT ![call[c].key] = ShardAt(to)],
           UNCHANGED <<call, generation, process, outcome, spawns>>,
           ~Granted(c), pc[c] # "done",
           to \notin Unspawned \cup {"running"} \cup Ended,
           entries[call[c].key].dispatch \in {"absent", "accepted"},
           entries'[call[c].key].dispatch \in {"absent", "accepted"},
           \A j \in Key : j # call[c].key => entries'[j] = entries[j],
           Claimable(entries'[call[c].key]) => to \in Responsible
    PROVE  BridgeInv'
<1> DEFINE k == call[c].key
<1>1. \A d \in Caller : call[d].key \in Key
  BY DEF BridgeInv, BridgeTypes
<1>2. BridgeTypes'
  BY DEF BridgeInv, BridgeTypes
<1>3. ShardHolders'
  BY ShardStep
<1>4. \A d \in Caller : d # c => pc'[d] = pc[d]
  BY DEF BridgeInv, BridgeTypes
<1>5. pc'[c] = to
  BY DEF BridgeInv, BridgeTypes
<1>6. \A d \in Caller : Granted(d)' <=> Granted(d)
  BY <1>4, <1>5 DEF Granted
<1>7. \A d \in Caller : generation[d] # 0 => call[d].key # k
  BY DEF BridgeInv, Grants, Closed, EntryOf
<1>8. Grants'
  <2>1. \A d \in Caller : generation[d] # 0 => EntryOf(d)' = EntryOf(d)
    BY <1>1, <1>7 DEF EntryOf
  <2>2. \A d \in Caller : generation[d] # 0 => pc'[d] = pc[d]
    BY <1>4, <1>7
  <2>3. \A d \in Caller : generation[d] # 0 => Granted(d)' \/ (pc'[d] = "done" /\ Closed(d)')
    BY <1>6, <2>1, <2>2 DEF BridgeInv, Grants, Closed
  <2>4. \A d \in Caller : pc'[d] \in Ended => outcome[d] \in Terminal
    BY <1>4, <1>5 DEF BridgeInv, Grants
  <2> QED
    BY <1>6, <2>1, <2>3, <2>4 DEF BridgeInv, Grants
<1>9. SpawnsUnderGrant'
  BY <1>1, <1>4, <1>5 DEF BridgeInv, SpawnsUnderGrant, Granted
<1>10. AcceptancesOwned'
  BY <1>4, <1>5 DEF BridgeInv, AcceptancesOwned
<1> QED
  BY <1>2, <1>3, <1>8, <1>9, <1>10 DEF BridgeInv

LEMMA BeginKeepsInv ==
    ASSUME BridgeInv, RegistryInv', NEW c \in Caller,
           BeginReserve(c) \/ BeginInsert(c) \/ RollbackDrop(c) \/ RollbackRelease(c)
    PROVE  BridgeInv'
<1> DEFINE k == call[c].key
<1>1. /\ k \in Key /\ call[c].request \in Request
      /\ entries \in [Key -> Entry]
  BY DEF BridgeInv, BridgeTypes, RegistryInv, TypeOK
<1>2. UNCHANGED <<call, generation, process, outcome, spawns>>
  BY DEF BeginReserve, BeginInsert, RollbackDrop, RollbackRelease
<1>3. CASE BeginReserve(c)
  <2>1. /\ pc[c] = "begin" /\ pc' = [pc EXCEPT ![c] = "insert"]
        /\ at[k] = "free" /\ at' = [at EXCEPT ![k] = "reserved"]
        /\ entries[k].dispatch = "absent" /\ entries' = entries
    BY <1>3 DEF BeginReserve, Goto, ReserveEntry, LockShard, Present
  <2>2. /\ ShardAt("begin") = "free" /\ ShardAt("insert") = "reserved"
        /\ "insert" \in ProgramPoint /\ ~Granted(c)
        /\ "insert" \notin Unspawned \cup {"running"} \cup Ended
    BY <2>1 DEF ShardAt, ProgramPoint, Granted, Unspawned, Ended
  <2> QED
    BY <1>1, <1>2, <2>1, <2>2, SlotKeepsInv DEF Claimable
<1>4. CASE BeginInsert(c)
  <2> DEFINE f == AcceptedEntry(call[c].request)
  <2>1. /\ pc[c] = "insert" /\ pc' = [pc EXCEPT ![c] = "precheck"]
        /\ at[k] = "reserved" /\ at' = [at EXCEPT ![k] = "free"]
        /\ entries' = [entries EXCEPT ![k] = f]
    BY <1>4 DEF BeginInsert, Goto, InsertEntry
  <2>2. f.dispatch = "accepted"
    BY <1>1, AcceptedEntryOK
  <2>3. entries[k].dispatch = "absent"
    BY <1>1, <2>1 DEF BridgeInv, RegistryInv, HeldShards, Present
  <2> HIDE DEF f
  <2>4. /\ ShardAt("insert") = "reserved" /\ ShardAt("precheck") = "free"
        /\ "precheck" \in ProgramPoint /\ ~Granted(c)
        /\ "precheck" \notin Unspawned \cup {"running"} \cup Ended
        /\ "precheck" \in Responsible
    BY <2>1 DEF ShardAt, ProgramPoint, Granted, Unspawned, Ended, Responsible
  <2> QED
    BY <1>1, <1>2, <2>1, <2>2, <2>3, <2>4, SlotKeepsInv
<1>5. CASE RollbackRelease(c)
  <2>1. /\ pc[c] = "release" /\ pc' = [pc EXCEPT ![c] = "done"]
        /\ at[k] = "removed" /\ at' = [at EXCEPT ![k] = "free"]
        /\ entries' = entries
    BY <1>5 DEF RollbackRelease, Return, Goto, ReleaseEntry
  <2>2. entries[k].dispatch = "absent"
    BY <1>1, <2>1 DEF BridgeInv, RegistryInv, HeldShards, Present
  <2>3. /\ ShardAt("release") = "removed" /\ ShardAt("done") = "free"
        /\ "done" \in ProgramPoint /\ ~Granted(c)
        /\ "done" \notin Unspawned \cup {"running"} \cup Ended
    BY <2>1 DEF ShardAt, ProgramPoint, Granted, Unspawned, Ended
  <2> QED
    BY <1>1, <1>2, <2>1, <2>2, <2>3, SlotKeepsInv DEF Claimable
<1>6. CASE RollbackDrop(c)
  <2>1. /\ pc[c] = "remove" /\ pc' = [pc EXCEPT ![c] = "release"]
        /\ at[k] = "checked" /\ at' = [at EXCEPT ![k] = "removed"]
        /\ entries' = [entries EXCEPT ![k] = NoEntry]
    BY <1>6 DEF RollbackDrop, Goto, RollbackRemove, DropEntry
  <2>2. entries[k].dispatch = "accepted" /\ entries'[k].dispatch = "absent"
    BY <1>1, <2>1 DEF BridgeInv, RegistryInv, HeldShards, NoEntry, NewEntry
  <2>3. /\ ShardAt("remove") = "checked" /\ ShardAt("release") = "removed"
        /\ "release" \in ProgramPoint /\ ~Granted(c)
        /\ "release" \notin Unspawned \cup {"running"} \cup Ended
    BY <2>1 DEF ShardAt, ProgramPoint, Granted, Unspawned, Ended
  <2> QED
    BY <1>1, <1>2, <2>1, <2>2, <2>3, SlotKeepsInv DEF Claimable
<1> QED BY <1>3, <1>4, <1>5, <1>6

LEMMA RollbackKeepsInv ==
    ASSUME BridgeInv, RegistryInv', NEW c \in Caller, Rollback(c)
    PROVE  BridgeInv'
<1> DEFINE k == call[c].key
<1>1. /\ k \in Key
      /\ entries \in [Key -> Entry]
      /\ outcome \in [Caller -> Terminal \cup {None}]
      /\ process \in [Caller -> {"none", "live", "reaped"}]
  BY DEF BridgeInv, BridgeTypes, RegistryInv, TypeOK
<1>2. pc[c] = "rollback" /\ UNCHANGED <<call, generation, process, outcome, spawns>>
  BY DEF Rollback, Return, Goto
<1>3. CASE RollbackAccept(k, call[c].request) /\ Goto(c, "rollback", "remove")
  <2>1. /\ at[k] = "free" /\ at' = [at EXCEPT ![k] = "checked"]
        /\ pc' = [pc EXCEPT ![c] = "remove"]
        /\ entries[k].dispatch = "accepted"
        /\ entries' = entries
    BY <1>3 DEF RollbackAccept, Rollbackable, LockShard, Goto
  <2>3. /\ ShardAt("rollback") = "free" /\ ShardAt("remove") = "checked"
        /\ "remove" \in ProgramPoint /\ ~Granted(c)
        /\ "remove" \notin Unspawned \cup {"running"} \cup Ended
        /\ "remove" \in Responsible
    BY <1>2 DEF ShardAt, ProgramPoint, Granted, Unspawned, Ended, Responsible
  <2> QED
    BY <1>1, <1>2, <2>1, <2>3, SlotKeepsInv
<1>4. CASE UNCHANGED registryVars /\ ~(RollbackAccept(k, call[c].request)
                                        /\ Goto(c, "rollback", "remove"))
  <2>1. Gentle
    BY <1>4, UnchangedIsGentle DEF BridgeInv
  <2>2. PICK to \in {"inhibit", "done"} :
          /\ pc' = [pc EXCEPT ![c] = to]
          /\ to = "done" => entries[k].dispatch = "absent"
    BY <1>4 DEF Rollback, Return, Goto, EntryOf
  <2>3. /\ to \in ProgramPoint
        /\ ShardAt(pc[c]) = "free" /\ ShardAt(to) = "free"
        /\ ~Granted(c) /\ to \notin Unspawned \cup {"running"} \cup Ended
        /\ to = "inhibit" => to \in Responsible
    BY <1>2, <2>2 DEF ProgramPoint, ShardAt, Granted, Unspawned, Ended, Responsible
  <2>4. to = "done" => ~Claimable(entries'[k])
    BY <1>1, <2>1, <2>2, GentleFacts DEF Claimable
  <2>5. \A d \in Caller : process[d] = "live" => pc[d] = "running"
    BY DEF BridgeInv, SpawnsUnderGrant
  <2> QED
    BY <1>1, <1>2, <2>1, <2>2, <2>3, <2>4, <2>5, MoveKeepsInv
<1> QED BY <1>3, <1>4 DEF Rollback

LEMMA ClaimAllocateKeepsInv ==
    ASSUME BridgeInv, RegistryInv', NEW c \in Caller, ClaimAllocate(c)
    PROVE  BridgeInv'
<1> DEFINE k == call[c].key
<1>1. /\ pc[c] = "claim" /\ pc' = [pc EXCEPT ![c] = "store"]
      /\ at[k] = "free" /\ at' = [at EXCEPT ![k] = "allocated"]
      /\ entries[k].dispatch = "accepted" /\ entries' = entries
      /\ UNCHANGED <<call, generation, process, outcome, spawns>>
  BY DEF ClaimAllocate, Goto, AllocateGeneration, LockShard, Claimable
<1>2. /\ ShardAt("claim") = "free" /\ ShardAt("store") = "allocated"
      /\ "store" \in ProgramPoint /\ ~Granted(c)
      /\ "store" \notin Unspawned \cup {"running"} \cup Ended
      /\ "store" \in Responsible
  BY <1>1 DEF ShardAt, ProgramPoint, Granted, Unspawned, Ended, Responsible
<1> QED
  BY <1>1, <1>2, SlotKeepsInv

\* The claim is granted to its caller and to nobody else.
LEMMA ClaimStoreKeepsInv ==
    ASSUME BridgeInv, RegistryInv', NEW c \in Caller, ClaimStore(c)
    PROVE  BridgeInv'
<1> DEFINE k == call[c].key
           d0 == [entries[k] EXCEPT !.dispatch = "started",
                                    !.inhibited = FALSE,
                                    !.generation = heldGen[k]]
           f == PushEvent(d0, "SpawnClaimed")
<1>1. /\ pc[c] = "store" /\ pc' = [pc EXCEPT ![c] = "postcheck"]
      /\ at[k] = "allocated" /\ at' = [at EXCEPT ![k] = "free"]
      /\ generation' = [generation EXCEPT ![c] = heldGen[k]]
      /\ UNCHANGED <<call, process, outcome, spawns>>
  BY DEF ClaimStore, Goto, StoreClaim
<1>2. /\ \A d \in Caller : call[d].key \in Key
      /\ entries \in [Key -> Entry]
      /\ Len(entries[k].history) <= MaxHistory
  BY DEF BridgeInv, BridgeTypes, RegistryInv, TypeOK
<1>3. entries' = [entries EXCEPT ![k] = f]
  BY <1>2 DEF ClaimStore, StoreClaim
<1>4. /\ entries[k].dispatch = "accepted"
      /\ heldGen[k] \in Nat /\ heldGen[k] # 0
  BY <1>1, <1>2, RegistryAssumption DEF BridgeInv, RegistryInv, HeldShards, TypeOK
<1>5. f.dispatch = "started" /\ f.generation = heldGen[k]
  <2>1. entries[k] \in Entry
    BY <1>2
  <2>2. /\ d0 \in Entry /\ d0.history = entries[k].history
        /\ d0.dispatch = "started" /\ d0.generation = heldGen[k]
    BY <1>4, <2>1 DEF Entry, Dispatch
  <2>3. "SpawnClaimed" \in EventKind
    BY DEF EventKind
  <2> HIDE DEF d0
  <2> QED BY <1>2, <2>2, <2>3, PushEventFields
<1> HIDE DEF f
<1>6. /\ ShardAt("store") = "allocated" /\ ShardAt("postcheck") = "free"
      /\ "postcheck" \in ProgramPoint /\ ~Granted(c)
      /\ "postcheck" \in Unspawned
      /\ "postcheck" \notin Ended
  BY <1>1 DEF ShardAt, ProgramPoint, Granted, Unspawned, Ended
<1>7. BridgeTypes'
  BY <1>1, <1>4, <1>6 DEF BridgeInv, BridgeTypes
<1>8. ShardHolders'
  BY <1>1, <1>6, ShardStep
<1>9. /\ pc'[c] = "postcheck" /\ generation'[c] = heldGen[k]
      /\ \A d \in Caller : d # c => pc'[d] = pc[d] /\ generation'[d] = generation[d]
  BY <1>1 DEF BridgeInv, BridgeTypes
<1>10. /\ entries'[k] = f
       /\ \A j \in Key : j # k => entries'[j] = entries[j]
  BY <1>2, <1>3
<1>11. \A d \in Caller : call[d].key = k => generation[d] = 0
  BY <1>4 DEF BridgeInv, Grants, Closed, EntryOf
<1>12. Granted(c)' /\ \A d \in Caller : d # c => (Granted(d)' <=> Granted(d))
  BY <1>6, <1>9 DEF Granted
<1>13. Grants'
  <2>1. \A d \in Caller : generation[d] # 0 =>
          d # c /\ EntryOf(d)' = EntryOf(d)
    BY <1>1, <1>2, <1>10, <1>11 DEF EntryOf
  <2>2. \A d \in Caller : Granted(d)' =>
          /\ generation'[d] # 0
          /\ EntryOf(d)'.dispatch = "started"
          /\ EntryOf(d)'.generation = generation'[d]
    <3> SUFFICES ASSUME NEW d \in Caller, Granted(d)'
                 PROVE  /\ generation'[d] # 0
                        /\ EntryOf(d)'.dispatch = "started"
                        /\ EntryOf(d)'.generation = generation'[d]
      OBVIOUS
    <3>1. CASE d = c
      BY <1>1, <1>4, <1>5, <1>9, <1>10, <3>1 DEF EntryOf
    <3>2. CASE d # c
      BY <1>9, <1>12, <2>1, <3>2 DEF BridgeInv, Grants
    <3> QED BY <3>1, <3>2
  <2>3. \A d \in Caller : generation'[d] # 0 =>
          Granted(d)' \/ (pc'[d] = "done" /\ Closed(d)')
    BY <1>1, <1>9, <1>12, <2>1 DEF BridgeInv, Grants, Closed
  <2>4. \A j \in Key : entries'[j].dispatch = "started" =>
          \E d \in Caller : call'[d].key = j /\ Granted(d)'
    BY <1>1, <1>10, <1>12 DEF BridgeInv, Grants
  <2>5. \A b, d \in Caller : b # d /\ call'[b].key = call'[d].key
          => generation'[b] = 0 \/ generation'[d] = 0
    BY <1>1, <1>9, <1>11 DEF BridgeInv, Grants
  <2>6. \A d \in Caller : pc'[d] \in Ended => outcome'[d] \in Terminal
    BY <1>1, <1>6, <1>9 DEF BridgeInv, Grants
  <2> QED
    BY <2>2, <2>3, <2>4, <2>5, <2>6 DEF Grants
<1>14. SpawnsUnderGrant'
  <2>1. spawns[k] = 0
    BY <1>2, <1>4 DEF BridgeInv, SpawnsUnderGrant
  <2>2. \A d \in Caller : process[d] = "live" => d # c
    BY <1>1 DEF BridgeInv, SpawnsUnderGrant
  <2> QED
    BY <1>1, <1>9, <1>10, <2>1, <2>2 DEF BridgeInv, SpawnsUnderGrant
<1>15. AcceptancesOwned'
  BY <1>1, <1>5, <1>9, <1>10 DEF BridgeInv, AcceptancesOwned, Claimable
<1> QED
  BY <1>7, <1>8, <1>13, <1>14, <1>15 DEF BridgeInv

\* The terminal closes the grant in the same step as the caller returns.
LEMMA RecordTerminalKeepsInv ==
    ASSUME BridgeInv, RegistryInv', NEW c \in Caller, RecordTerminal(c)
    PROVE  BridgeInv'
<1> DEFINE k == call[c].key
<1>1. /\ pc[c] = "complete" /\ pc' = [pc EXCEPT ![c] = "done"]
      /\ Complete(k, generation[c], outcome[c])
      /\ UNCHANGED <<call, generation, process, outcome, spawns>>
  BY DEF RecordTerminal, Return, Goto
<1>2. /\ \A d \in Caller : call[d].key \in Key
      /\ entries \in [Key -> Entry]
  BY DEF BridgeInv, BridgeTypes, RegistryInv, TypeOK
<1>3. Granted(c) /\ pc[c] \in Ended
  BY <1>1 DEF Granted, Ended
<1>4. generation[c] \in 1..GenerationMax /\ outcome[c] \in Terminal
  BY <1>3, GrantedGeneration DEF BridgeInv, Grants
<1>5. PICK f \in Entry :
        SetEntry(k, f) /\ Finishes(entries[k], f) /\ f.terminal = outcome[c]
  BY <1>1, <1>2, <1>4, CompleteForm DEF BridgeInv
<1>6. /\ entries' = [entries EXCEPT ![k] = f]
      /\ at[k] = "free" /\ at' = at
  BY <1>5 DEF SetEntry, LockShard
<1>7. /\ f.dispatch = "terminal"
      /\ f.generation = generation[c]
      /\ f.terminal = outcome[c]
      /\ entries[k].dispatch = "started"
  BY <1>1, <1>5 DEF Finishes, Complete
<1>8. /\ ShardAt("complete") = "free" /\ ShardAt("done") = "free"
      /\ "done" \in ProgramPoint
      /\ "done" \notin Unspawned \cup {"running"} \cup Ended
      /\ "complete" \notin Responsible
  BY DEF ShardAt, ProgramPoint, Unspawned, Ended, Responsible
<1>9. BridgeTypes'
  BY <1>1, <1>8 DEF BridgeInv, BridgeTypes
<1>10. ShardHolders'
  <2>1. at' = [at EXCEPT ![k] = "free"]
    BY <1>2, <1>6 DEF BridgeInv, RegistryInv, TypeOK
  <2> QED BY <1>1, <1>6, <1>8, <2>1, ShardStep
<1>11. pc'[c] = "done" /\ \A d \in Caller : d # c => pc'[d] = pc[d]
  BY <1>1 DEF BridgeInv, BridgeTypes
<1>12. /\ entries'[k] = f
       /\ \A j \in Key : j # k => entries'[j] = entries[j]
  BY <1>2, <1>6
<1>13. \A d \in Caller : d # c /\ call[d].key = k => generation[d] = 0
  BY <1>3 DEF BridgeInv, Grants
<1>14. ~Granted(c)' /\ \A d \in Caller : d # c => (Granted(d)' <=> Granted(d))
  BY <1>8, <1>11 DEF Granted
<1>15. \A d \in Caller : d # c /\ generation[d] # 0 => EntryOf(d)' = EntryOf(d)
  BY <1>1, <1>2, <1>12, <1>13 DEF EntryOf
<1>16. Grants'
  <2>1. Closed(c)'
    BY <1>1, <1>7, <1>12 DEF Closed, EntryOf
  <2>2. \A d \in Caller : Granted(d)' =>
          /\ generation'[d] # 0
          /\ EntryOf(d)'.dispatch = "started"
          /\ EntryOf(d)'.generation = generation'[d]
    BY <1>1, <1>14, <1>15 DEF BridgeInv, Grants
  <2>3. \A d \in Caller : generation'[d] # 0 =>
          Granted(d)' \/ (pc'[d] = "done" /\ Closed(d)')
    BY <1>1, <1>11, <1>14, <1>15, <2>1 DEF BridgeInv, Grants, Closed
  <2>4. \A j \in Key : entries'[j].dispatch = "started" =>
          \E d \in Caller : call'[d].key = j /\ Granted(d)'
    BY <1>1, <1>7, <1>12, <1>14 DEF BridgeInv, Grants
  <2>5. \A d \in Caller : pc'[d] \in Ended => outcome'[d] \in Terminal
    BY <1>1, <1>8, <1>11 DEF BridgeInv, Grants
  <2> QED
    BY <1>1, <2>2, <2>3, <2>4, <2>5 DEF BridgeInv, Grants
<1>17. SpawnsUnderGrant'
  <2>1. \A d \in Caller : process[d] = "live" => d # c
    BY <1>1 DEF BridgeInv, SpawnsUnderGrant
  <2> QED
    BY <1>1, <1>7, <1>8, <1>11, <1>12, <2>1 DEF BridgeInv, SpawnsUnderGrant
<1>18. AcceptancesOwned'
  BY <1>1, <1>7, <1>8, <1>11, <1>12 DEF BridgeInv, AcceptancesOwned, Claimable
<1> QED
  BY <1>9, <1>10, <1>16, <1>17, <1>18 DEF BridgeInv

LEMMA NextKeepsBridgeInv ==
    ASSUME BridgeInv, [Next]_vars
    PROVE  BridgeInv'
<1>1. RegistryInv'
  BY StepIsRegistryStep, NextKeepsInv DEF BridgeInv
<1>2. CASE UNCHANGED vars
  <2>1. UNCHANGED registryVars
          /\ UNCHANGED <<call, pc, generation, process, outcome, spawns>>
    BY <1>2 DEF vars, bridgeVars
  <2> QED BY <1>1, <2>1, UnchangedIsGentle, StayKeepsInv DEF BridgeInv
<1>3. ASSUME NEW c \in Caller, CallerStep(c)
      PROVE  BridgeInv'
  <2>1. CASE BeginReserve(c) \/ BeginInsert(c) \/ RollbackDrop(c) \/ RollbackRelease(c)
    BY <1>1, <2>1, BeginKeepsInv
  <2>2. CASE \/ BeginExisting(c) \/ BeginRefused(c) \/ ClaimAnswered(c)
             \/ ClaimFailed(c) \/ PrespawnCheck(c) \/ RuntimeReturns(c)
    BY <1>1, <2>2, ReadKeepsInv
  <2>3. CASE Precheck(c) \/ Postcheck(c) \/ Finish(c)
    BY <1>1, <2>3, CheckKeepsInv
  <2>4. CASE ClaimAllocate(c)
    BY <1>1, <2>4, ClaimAllocateKeepsInv
  <2>5. CASE ClaimStore(c)
    BY <1>1, <2>5, ClaimStoreKeepsInv
  <2>6. CASE Rollback(c)
    BY <1>1, <2>6, RollbackKeepsInv
  <2>7. CASE Inhibit(c)
    BY <1>1, <2>7, InhibitKeepsInv
  <2>8. CASE \E kind \in Terminal : EndUnspawned(c, kind) \/ ProcessEnds(c, kind)
    BY <1>1, <2>8, EndKeepsInv
  <2>9. CASE Spawn(c)
    BY <1>1, <2>9, SpawnKeepsInv
  <2>10. CASE RecordTerminal(c)
    BY <1>1, <2>10, RecordTerminalKeepsInv
  <2> QED
    BY <1>3, <2>1, <2>2, <2>3, <2>4, <2>5, <2>6, <2>7, <2>8, <2>9, <2>10
       DEF CallerStep
<1>4. ASSUME NEW c \in Caller, Start(c)
      PROVE  BridgeInv'
  BY <1>1, <1>4, ReadKeepsInv
<1>5. CASE CancelTurn \/ \E c \in Caller : SinkFails(c)
  <2>1. UNCHANGED registryVars
          /\ UNCHANGED <<call, pc, generation, process, outcome, spawns>>
    BY <1>5 DEF CancelTurn, SinkFails
  <2> QED BY <1>1, <2>1, UnchangedIsGentle, StayKeepsInv DEF BridgeInv
<1>6. ASSUME NEW k \in Key, HostCancel(k)
      PROVE  BridgeInv'
  <2>1. Gentle
    BY <1>6, EditIsGentle DEF HostCancel, Edit, BridgeInv
  <2> QED BY <1>1, <1>6, <2>1, StayKeepsInv DEF HostCancel, bridgeVars
<1> QED
  BY <1>2, <1>3, <1>4, <1>5, <1>6 DEF Next

\* The inductive invariant of the callers and their registry holds in every
\* reachable state, for any number of callers.
THEOREM BridgeInvariance == BridgeSpec => []BridgeInv
<1>1. BridgeInv /\ [Next]_vars => BridgeInv'
  BY NextKeepsBridgeInv
<1> QED
  BY InitBridgeInv, <1>1, PTL DEF BridgeSpec

\* execute_fallible_with_deadline drives the registry through its operations
\* only, so every action property of the registry holds under the bridge too.
THEOREM BridgeDrivesRegistry == BridgeSpec => [][RegistryNext]_registryVars
<1>1. BridgeInv /\ [Next]_vars => [RegistryNext]_registryVars
  BY StepIsRegistryStep
<1> QED
  BY BridgeInvariance, <1>1, PTL DEF BridgeSpec

\* Under the bridge's callers too, a snapshot that says a call was not started
\* stays true and a dispatch never goes back.
THEOREM BridgeKeepsPromises ==
    BridgeSpec => NotStartedProofHolds /\ DispatchNeverRegresses
<1>1. BridgeInv => RegistryInv
  BY DEF BridgeInv
<1> QED
  BY BridgeInvariance, BridgeDrivesRegistry, <1>1, NotStartedStepHolds,
     DispatchStepHolds, PTL DEF NotStartedProofHolds, DispatchNeverRegresses

\* However many callers carry one call and however they interleave, its
\* command is started at most once, and a live child is the one the registry
\* says is started.
THEOREM SpawnsAtMostOnce == BridgeSpec => []AtMostOneSpawn
<1>1. BridgeInv => AtMostOneSpawn
  <2> SUFFICES ASSUME BridgeInv PROVE AtMostOneSpawn
    OBVIOUS
  <2>1. \A c \in Caller : process[c] = "live" => Granted(c)
    BY DEF BridgeInv, SpawnsUnderGrant, Granted
  <2> QED
    BY <2>1 DEF BridgeInv, AtMostOneSpawn, SpawnsUnderGrant, Grants
<1> QED
  BY BridgeInvariance, <1>1, PTL

\* A caller that was granted the spawn has recorded its terminal when it
\* returns, whatever failed on the way.
THEOREM GrantsAreClosed == BridgeSpec => []ClosedBeforeReturn
<1>1. BridgeInv => ClosedBeforeReturn
  <2> SUFFICES ASSUME BridgeInv, NEW c \in Caller, pc[c] = "done", generation[c] # 0
               PROVE  Closed(c)
    BY DEF ClosedBeforeReturn, Closed
  <2>1. ~Granted(c)
    BY DEF Granted, Unspawned, Ended
  <2> QED
    BY <2>1 DEF BridgeInv, Grants
<1> QED
  BY BridgeInvariance, <1>1, PTL

\* When nobody works on a call, its shard is free, it is not started, and no
\* claimable acceptance is left of it.
THEOREM NothingIsLeftBehind == BridgeSpec => []NothingLeftBehind
<1>1. BridgeInv => NothingLeftBehind
  <2> SUFFICES ASSUME BridgeInv, NEW k \in Key, Idle(k)
               PROVE  /\ at[k] = "free"
                      /\ ~Claimable(entries[k])
                      /\ entries[k].dispatch # "started"
    BY DEF NothingLeftBehind
  <2>1. \A c \in Caller : call[c].key = k =>
          ShardAt(pc[c]) = "free" /\ ~Granted(c) /\ pc[c] \notin Responsible
    BY DEF Idle, ShardAt, Granted, Unspawned, Ended, Responsible
  <2> QED
    BY <2>1 DEF BridgeInv, ShardHolders, Grants, AcceptancesOwned
<1> QED
  BY BridgeInvariance, <1>1, PTL
=============================================================================
