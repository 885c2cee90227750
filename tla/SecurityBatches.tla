-------------------------- MODULE SecurityBatches --------------------------
(***************************************************************************)
(* The build of a security batch (discovery/universe.go, the checkpoints   *)
(* of security_source_checkpoint.go and security_checkpoint.go): sources   *)
(* are fetched stage by stage and kept as artifacts, the batch is named by *)
(* a hash of everything it is made from, its rows are written in chunks,   *)
(* each with its checkpoint in one transaction, and an attempt that stops  *)
(* anywhere is taken up by the next.  The effective date and the policy    *)
(* are part of every key and of every name, and fixed here; so is the      *)
(* metadata, which no artifact keeps.  One process builds: the workflow's  *)
(* lease (DiscoverySync) and the gate of the process see to that.  The     *)
(* issuers graded A or B, whose insiders are fetched in any case, stay.    *)
(*                                                                         *)
(* An operator named X_<Name> is X as a plausible slip would leave it; no  *)
(* action uses it.                                                         *)
(***************************************************************************)
EXTENDS Naturals, Sequences

CONSTANTS
    Stages,      \* the sequence of source stages
    Narrowed,    \* the stages whose scope is taken from what the first stage found
    Chunks,      \* number of chunks of a batch
    MaxEdition,  \* bound: editions of a source
    MaxLosses    \* bound: artifacts that expire or are damaged, and crashes

VARIABLES edition, artifact, file, builder, batch, pointer, losses
vars == <<edition, artifact, file, builder, batch, pointer, losses>>

Stage == {Stages[i] : i \in DOMAIN Stages}
Edition == 1..MaxEdition
Torn == MaxEdition + 1
Absent == 0

\* The scope of a stage that is not narrowed is 0.  A payload is what one stage
\* brought: the edition of the source, for a scope.
Scope == 0..MaxEdition
Payload == [scope : Scope, edition : Edition]

\* A batch is named by its inputs, one payload per stage.
Name == [Stage -> Payload]

NoRow == [status |-> "none", sha |-> Absent, expired |-> FALSE]
NoBatch == [status |-> "none", checkpoint |-> [c \in 1..Chunks |-> "none"],
            rows |-> [c \in 1..Chunks |-> <<>>]]
Idle == [pc |-> "idle", stage |-> 1, payload |-> <<>>, fetched |-> Absent, chunk |-> 1]

Init ==
    /\ edition = [s \in Stage |-> 1]
    /\ artifact = [k \in Stage \X Scope |-> NoRow]
    /\ file = [k \in Stage \X Scope |-> Absent]
    /\ builder = Idle
    /\ batch = [n \in {} |-> NoBatch]
    /\ pointer = <<>>
    /\ losses = 0

-----------------------------------------------------------------------------
Change(s) ==
    /\ edition[s] < MaxEdition
    /\ edition' = [edition EXCEPT ![s] = @ + 1]
    /\ UNCHANGED <<artifact, file, builder, batch, pointer, losses>>

\* The cache lifetime of a finished artifact is over.
Expire(k) ==
    /\ losses < MaxLosses
    /\ artifact[k].status = "completed" /\ ~artifact[k].expired
    /\ artifact' = [artifact EXCEPT ![k].expired = TRUE]
    /\ losses' = losses + 1
    /\ UNCHANGED <<edition, file, builder, batch, pointer>>

Damage(k) ==
    /\ losses < MaxLosses
    /\ file[k] \in Edition
    /\ file' = [file EXCEPT ![k] = Torn]
    /\ losses' = losses + 1
    /\ UNCHANGED <<edition, artifact, builder, batch, pointer>>

Crash ==
    /\ losses < MaxLosses
    /\ builder.pc # "idle"
    /\ builder' = Idle
    /\ losses' = losses + 1
    /\ UNCHANGED <<edition, artifact, file, batch, pointer>>

-----------------------------------------------------------------------------
(* The sources.                                                            *)

\* SyncSecurityUniverse: the metadata is loaded anew by every attempt.
Start ==
    /\ builder.pc = "idle"
    /\ builder' = [Idle EXCEPT !.pc = "look"]
    /\ UNCHANGED <<edition, artifact, file, batch, pointer, losses>>

Current == Stages[builder.stage]

\* securitySourceScopeSHA: the insiders are fetched for the issuers that the
\* financial facts let through.
ScopeOf_Wide(s) == 0
ScopeOf(s) == IF s \in Narrowed THEN builder.payload[Stages[1]].edition ELSE 0

Key == <<Current, ScopeOf(Current)>>

\* loadSecuritySourceArtifact: the row is completed and not too old, and the file
\* is whole and has the hash that the row recorded.
Reusable_Unhashed(k) == artifact[k].status = "completed" /\ ~artifact[k].expired /\ file[k] # Absent
Reusable(k) ==
    /\ artifact[k].status = "completed"
    /\ ~artifact[k].expired
    /\ file[k] = artifact[k].sha

Take(payload) ==
    builder' = [builder EXCEPT
        !.payload = [s \in (DOMAIN @) \cup {Current} |-> IF s = Current THEN payload ELSE @[s]],
        !.stage = @ + 1,
        !.fetched = Absent,
        !.pc = IF builder.stage < Len(Stages) THEN "look" ELSE "draft"]

\* An artifact holds the payload of the stage for the scope it was fetched for.
Reuse ==
    /\ builder.pc = "look"
    /\ Reusable(Key)
    /\ Take([scope |-> Key[2], edition |-> file[Key]])
    /\ UNCHANGED <<edition, artifact, file, batch, pointer, losses>>

\* beginSecuritySourceCheckpoint: the row starts over, without a hash.
Begin ==
    /\ builder.pc = "look"
    /\ ~Reusable(Key)
    /\ artifact' = [artifact EXCEPT ![Key] = [NoRow EXCEPT !.status = "running"]]
    /\ builder' = [builder EXCEPT !.pc = "fetch"]
    /\ UNCHANGED <<edition, file, batch, pointer, losses>>

Fetch ==
    /\ builder.pc = "fetch"
    /\ builder' = [builder EXCEPT !.pc = "rename", !.fetched = edition[Current]]
    /\ UNCHANGED <<edition, artifact, file, batch, pointer, losses>>

\* saveSecuritySourceArtifact: the synced temporary file is renamed ...
Rename ==
    /\ builder.pc = "rename"
    /\ file' = [file EXCEPT ![Key] = builder.fetched]
    /\ builder' = [builder EXCEPT !.pc = "record"]
    /\ UNCHANGED <<edition, artifact, batch, pointer, losses>>

\* ... and the row records its hash.
Record ==
    /\ builder.pc = "record"
    /\ artifact' = [artifact EXCEPT ![Key] =
         [status |-> "completed", sha |-> builder.fetched, expired |-> FALSE]]
    /\ Take([scope |-> ScopeOf(Current), edition |-> builder.fetched])
    /\ UNCHANGED <<edition, file, batch, pointer, losses>>

\* The fetch times out or is refused, or a file operation or statement fails: the
\* row is failed, and a failed batch of its own (recordEarlyFailure, not kept here)
\* says so.
SourceFails ==
    /\ builder.pc \in {"fetch", "rename", "record"}
    /\ artifact' = [artifact EXCEPT ![Key].status = "failed"]
    /\ builder' = Idle
    /\ UNCHANGED <<edition, file, batch, pointer, losses>>

-----------------------------------------------------------------------------
(* The batch.                                                              *)

\* hashSecurityInputs and batchIdentityWithPolicy.
Identity_Partial(p) == [p EXCEPT ![Stages[Len(Stages)]].edition = 1]
Identity(p) == p

This == Identity(builder.payload)

Known == This \in DOMAIN batch

SetBatch(b) ==
    batch' = [n \in (DOMAIN batch) \cup {This} |-> IF n = This THEN b ELSE batch[n]]

\* createDraft: a new batch; a published one is returned as it is; a draft or a
\* failed one is taken up with the chunks it has (resumeRetryableBatch).
CreateDraft ==
    /\ builder.pc = "draft"
    /\ IF Known /\ batch[This].status = "published"
       THEN builder' = Idle /\ UNCHANGED batch
       ELSE /\ SetBatch(IF Known THEN [batch[This] EXCEPT !.status = "draft"]
                        ELSE [NoBatch EXCEPT !.status = "draft"])
            /\ builder' = [builder EXCEPT !.pc = "chunk"]
    /\ UNCHANGED <<edition, artifact, file, pointer, losses>>

CreateDraftFails ==
    /\ builder.pc = "draft"
    /\ builder' = Idle
    /\ UNCHANGED <<edition, artifact, file, batch, pointer, losses>>

After(c) == IF c < Chunks THEN [builder EXCEPT !.chunk = c + 1] ELSE [builder EXCEPT !.pc = "publish"]

\* runSecurityStageChunk: a chunk that is completed is skipped, ...
SkipChunk ==
    /\ builder.pc = "chunk"
    /\ batch[This].checkpoint[builder.chunk] = "completed"
    /\ builder' = After(builder.chunk)
    /\ UNCHANGED <<edition, artifact, file, batch, pointer, losses>>

\* ... any other is marked running, ...
MarkChunk ==
    /\ builder.pc = "chunk"
    /\ batch[This].checkpoint[builder.chunk] # "completed"
    /\ batch' = [batch EXCEPT ![This].checkpoint[builder.chunk] = "running"]
    /\ builder' = [builder EXCEPT !.pc = "write"]
    /\ UNCHANGED <<edition, artifact, file, pointer, losses>>

\* ... and written with its checkpoint in one transaction; rows that exist stay.
WriteChunk ==
    /\ builder.pc = "write"
    /\ batch' = [batch EXCEPT
         ![This].checkpoint[builder.chunk] = "completed",
         ![This].rows[builder.chunk] = IF @ = <<>> THEN builder.payload ELSE @]
    /\ builder' = [After(builder.chunk) EXCEPT
         !.pc = IF builder.chunk < Chunks THEN "chunk" ELSE "publish"]
    /\ UNCHANGED <<edition, artifact, file, pointer, losses>>

\* A statement fails or the context ends: failBatch, after the checkpoint of a
\* chunk under way.
StagingFails ==
    /\ builder.pc \in {"chunk", "write", "publish"}
    /\ batch' = [batch EXCEPT
         ![This].status = "failed",
         ![This].checkpoint[builder.chunk] = IF builder.pc = "write" THEN "failed" ELSE @]
    /\ builder' = Idle
    /\ UNCHANGED <<edition, artifact, file, pointer, losses>>

\* validateSecurityStage counts the rows; publish moves the batch and the pointer in
\* one transaction, and only from a draft.
Publish ==
    /\ builder.pc = "publish"
    /\ \A c \in 1..Chunks : batch[This].rows[c] # <<>>
    /\ batch[This].status = "draft"
    /\ batch' = [batch EXCEPT ![This].status = "published"]
    /\ pointer' = This
    /\ builder' = Idle
    /\ UNCHANGED <<edition, artifact, file, losses>>

Next ==
    \/ \E s \in Stage : Change(s)
    \/ \E k \in Stage \X Scope : Expire(k) \/ Damage(k)
    \/ Crash
    \/ Start \/ Reuse \/ Begin \/ Fetch \/ Rename \/ Record \/ SourceFails
    \/ CreateDraft \/ CreateDraftFails \/ SkipChunk \/ MarkChunk \/ WriteChunk
    \/ StagingFails \/ Publish

Spec == Init /\ [][Next]_vars

-----------------------------------------------------------------------------
TypeOK ==
    /\ edition \in [Stage -> Edition]
    /\ \A k \in Stage \X Scope :
         /\ artifact[k].status \in {"none", "running", "completed", "failed"}
         /\ artifact[k].sha \in {Absent} \cup Edition
         /\ file[k] \in {Absent, Torn} \cup Edition
    /\ DOMAIN batch \subseteq Name
    /\ pointer = <<>> \/ pointer \in DOMAIN batch

\* A published batch has all of its rows, made by whatever attempts from one and the
\* same inputs, those it is named by; the pointer names a published batch.
PublishedWhole ==
    /\ \A n \in DOMAIN batch : batch[n].status = "published" =>
         \A c, d \in 1..Chunks :
            batch[n].rows[c] # <<>> /\ batch[n].rows[c] = batch[n].rows[d]
                /\ Identity(batch[n].rows[c]) = n
    /\ pointer # <<>> => batch[pointer].status = "published"

\* What an attempt works with was fetched whole, and for the scope that its own
\* earlier stages call for.
PayloadsBelong ==
    \A s \in DOMAIN builder.payload :
        /\ builder.payload[s].edition \in Edition
        /\ s \in Narrowed => builder.payload[s].scope = builder.payload[Stages[1]].edition
=============================================================================
