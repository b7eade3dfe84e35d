----------------------------- MODULE VoteIngestion -----------------------------
(***************************************************************************)
(* ingestVotesForProposal (services/ingestion/vote.service.ts) copies the  *)
(* votes on one proposal from Koios, page by page and in two passes, while *)
(* blocks with new votes arrive and forks remove some.  After each page it *)
(* saves a checkpoint, from which the next run goes on if a request or a   *)
(* write fails or the process stops.                                       *)
(*                                                                         *)
(* One run ingests the votes on the proposal at a time.  A vote is its     *)
(* block time, its transaction and its voter; Koios orders votes by the    *)
(* first two, and the voters of a transaction always in the same way.      *)
(* Voters, rationales and survey answers are left out.                     *)
(***************************************************************************)
EXTENDS Integers, Sequences, FiniteSets, FiniteSetsExt

CONSTANTS
    PageSize,   \* VOTE_INGEST_PAGE_SIZE
    Overlap,    \* VOTE_INGEST_OVERLAP_SECONDS, in blocks
    MaxTime, MaxVotes, MaxForks, MaxFails, MaxStops   \* bounds

ASSUME IngestAssumption ==
    /\ PageSize \in Nat \ {0}
    /\ {Overlap, MaxTime, MaxVotes, MaxForks, MaxFails, MaxStops} \subseteq Nat

VARIABLES
    now,         \* the time of the latest block
    onchain,     \* the votes on the proposal, in the order of Koios
    stored,      \* onchainVote: the votes in the database
    checkpoint,  \* backfillCursor of the job vote-ingest-window
    pc, run,     \* the run, and its local state
    due,         \* ghost: votes that were there when it began afresh, and stay
    made, forks, failed, stops

remote == <<now, onchain, made, forks>>
ingestVars == <<remote, stored, checkpoint, pc, run, due, failed, stops>>

Ballot == [id : 1..MaxVotes, time : 1..MaxTime, tx : 1..2]

NoCursor == [time |-> 0, tx |-> 0]
CursorOf(v) == [time |-> v.time, tx |-> v.tx]
Cursors == {NoCursor} \cup [time : 1..MaxTime, tx : 1..2]

(* VoteIngestionCheckpoint; no checkpoint, or one that is cleared, is       *)
(* loaded as Fresh.                                                        *)
Fresh == [phase |-> "pass1", offset |-> 0, cursor |-> NoCursor, min |-> 0]
Checkpoints ==
    [phase : {"pass1", "pass2"}, offset : Nat, cursor : Cursors, min : 0..MaxTime]

(* What a run knows: its checkpointState, the cursor of its pass, the votes *)
(* of a page that are still to be written, the page's length, and the votes *)
(* it has processed.                                                       *)
NoRun == [at |-> Fresh, page |-> <<>>, left |-> {}, seen |-> {}, streams |-> FALSE]

IngestTypeOK ==
    /\ now \in 0..MaxTime /\ made \in 0..MaxVotes
    /\ onchain \in Seq(Ballot)
    /\ \A i, j \in DOMAIN onchain :
          i < j => /\ onchain[i].time <= onchain[j].time
                   /\ onchain[i].time = onchain[j].time => onchain[i].tx <= onchain[j].tx
    /\ stored \subseteq 1..MaxVotes
    /\ checkpoint \in Checkpoints /\ run.at \in Checkpoints
    /\ pc \in {"idle", "fetch", "write", "over"}
    /\ pc # "write" => run.left = {}
    /\ run.left \subseteq 1..MaxVotes /\ run.seen \subseteq 1..MaxVotes
    /\ Len(run.page) <= IF run.streams THEN PageSize ELSE MaxVotes
    /\ due \subseteq 1..MaxVotes
    /\ forks \in 0..MaxForks /\ failed \in 0..MaxFails /\ stops \in 0..MaxStops

Ids(rows) == {rows[i].id : i \in DOMAIN rows}

(* How many of the votes are older; they are the first ones. *)
Older(time) == Cardinality({i \in DOMAIN onchain : onchain[i].time < time})

-------------------------------------------------------------------------------
(* The chain, as Koios shows it *)

(* The votes of a block: at most two, of one transaction or of two. *)
BlockVotes(time) ==
    LET vote(n, tx) == [id |-> made + n, time |-> time, tx |-> tx] IN
    {<<>>, <<vote(1, 1)>>, <<vote(1, 1), vote(2, 1)>>, <<vote(1, 1), vote(2, 2)>>}

NewBlock ==
    /\ now < MaxTime
    /\ now' = now + 1
    /\ \E new \in BlockVotes(now + 1) :
          /\ made + Len(new) <= MaxVotes
          /\ made' = made + Len(new)
          /\ onchain' = onchain \o new
    /\ UNCHANGED <<forks, stored, checkpoint, pc, run, due, failed, stops>>

(* The blocks after some time are replaced by others, less than Overlap. *)
Fork(time) ==
    /\ forks < MaxForks /\ time <= now /\ now - time < Overlap
    /\ forks' = forks + 1
    /\ onchain' = SubSeq(onchain, 1, Older(time))
    /\ due' = due \cap Ids(onchain')
    /\ UNCHANGED <<now, made, stored, checkpoint, pc, run, failed, stops>>

-------------------------------------------------------------------------------
(* A run *)

BeginIngest ==
    /\ pc = "idle"
    /\ pc' = "fetch"
    /\ run' = [NoRun EXCEPT !.at = checkpoint, !.streams = TRUE]
    /\ due' = IF checkpoint = Fresh THEN Ids(onchain) ELSE due
    /\ UNCHANGED <<remote, stored, checkpoint, failed, stops>>

(* Sync-on-read has already fetched all votes. *)
BeginPrefetched ==
    /\ pc = "idle" /\ onchain # <<>>
    /\ pc' = "write"
    /\ run' = [NoRun EXCEPT !.page = onchain, !.left = Ids(onchain)]
    /\ UNCHANGED <<remote, stored, checkpoint, due, failed, stops>>

(* isVoteAfterCursor *)
After(v, cursor) ==
    \/ v.time > cursor.time
    \/ v.time = cursor.time /\ v.tx > cursor.tx

MinTime == IF run.at.phase = "pass1" THEN run.at.cursor.time ELSE run.at.min

(* The page at an offset among the votes from MinTime on. *)
Page ==
    LET before == Older(MinTime) + run.at.offset IN
    SubSeq(onchain, before + 1, Min({before + PageSize, Len(onchain)}))

(* The rows of a page that are taken: in pass one, those behind the cursor. *)
Effective(page) ==
    {i \in DOMAIN page : run.at.phase = "pass1" => After(page[i], run.at.cursor)}

(* A page of votes arrives. *)
Fetch ==
    /\ pc = "fetch" /\ Page # <<>>
    /\ LET unseen == {Page[i].id : i \in Effective(Page)} \ run.seen IN
       run' = [run EXCEPT !.page = Page, !.left = unseen, !.seen = @ \cup unseen]
    /\ pc' = "write"
    /\ UNCHANGED <<remote, stored, checkpoint, due, failed, stops>>

(* The upsert of a vote; those of a batch end in any order. *)
Write(id) ==
    /\ pc = "write" /\ id \in run.left
    /\ stored' = stored \cup {id}
    /\ run' = [run EXCEPT !.left = @ \ {id}]
    /\ UNCHANGED <<remote, checkpoint, pc, due, failed, stops>>

(* The state after a page. *)
Advanced ==
    LET rows == Effective(run.page) IN
    [run.at EXCEPT
       !.offset = @ + Len(run.page),
       !.cursor = IF run.at.phase = "pass1" /\ rows # {} THEN CursorOf(run.page[Max(rows)]) ELSE @]

(* Mutants: the second pass starts where the first one ended, or its       *)
(* offset is that of the first.                                            *)
PassTwoNoOverlap(at) ==
    [at EXCEPT !.phase = "pass2", !.offset = 0, !.min = at.cursor.time + 1]
PassTwoOffset(at) ==
    [at EXCEPT !.phase = "pass2", !.min = Max({0, at.cursor.time - Overlap})]

PassTwo(at) ==
    [at EXCEPT !.phase = "pass2", !.offset = 0, !.min = Max({0, at.cursor.time - Overlap})]

EndIngest == pc' = "idle" /\ run' = NoRun

(* A full page is written and the checkpoint saved. *)
SavePage ==
    /\ pc = "write" /\ run.left = {} /\ run.streams /\ Len(run.page) = PageSize
    /\ checkpoint' = Advanced
    /\ run' = [run EXCEPT !.at = Advanced, !.page = <<>>]
    /\ pc' = "fetch"
    /\ UNCHANGED <<remote, stored, due, failed, stops>>

(* The last page of pass one is written and the checkpoint saved. *)
SaveShortPage ==
    /\ pc = "write" /\ run.left = {} /\ run.streams /\ Len(run.page) < PageSize
    /\ run.at.phase = "pass1"
    /\ checkpoint' = Advanced
    /\ run' = [run EXCEPT !.at = PassTwo(Advanced), !.page = <<>>]
    /\ pc' = "fetch"
    /\ UNCHANGED <<remote, stored, due, failed, stops>>

(* Pass one ends on an empty page. *)
EndPassOne ==
    /\ pc = "fetch" /\ Page = <<>> /\ run.at.phase = "pass1"
    /\ run' = [run EXCEPT !.at = PassTwo(run.at)]
    /\ UNCHANGED <<remote, stored, checkpoint, pc, due, failed, stops>>

(* The last page of pass two. *)
SaveLastPage ==
    /\ pc = "write" /\ run.left = {} /\ run.streams /\ Len(run.page) < PageSize
    /\ run.at.phase = "pass2"
    /\ checkpoint' = Advanced
    /\ run' = [run EXCEPT !.at = Advanced, !.page = <<>>]
    /\ pc' = "over"
    /\ UNCHANGED <<remote, stored, due, failed, stops>>

Over ==
    \/ pc = "over"
    \/ pc = "fetch" /\ Page = <<>> /\ run.at.phase = "pass2"

CompletePrefetched ==
    /\ pc = "write" /\ run.left = {} /\ ~run.streams
    /\ EndIngest
    /\ UNCHANGED <<remote, stored, checkpoint, due, failed, stops>>

(* markVoteCheckpointComplete *)
Complete ==
    /\ Over
    /\ checkpoint' = Fresh
    /\ due' = {}
    /\ EndIngest
    /\ UNCHANGED <<remote, stored, failed, stops>>

(* The proposal or the checkpoint cannot be read: a fresh one is saved. *)
FailEarly ==
    /\ pc = "idle" /\ failed < MaxFails
    /\ failed' = failed + 1
    /\ checkpoint' = Fresh /\ due' = {}
    /\ UNCHANGED <<remote, stored, pc, run, stops>>

(* A request or a write fails: the state of the last page is saved. *)
Fail ==
    /\ pc # "idle" /\ failed < MaxFails
    /\ failed' = failed + 1
    /\ checkpoint' = run.at
    /\ due' = IF run.at = Fresh THEN {} ELSE due
    /\ EndIngest
    /\ UNCHANGED <<remote, stored, stops>>

(* The process stops, or the checkpoint cannot be saved. *)
StopIngest ==
    /\ pc # "idle" /\ stops < MaxStops
    /\ stops' = stops + 1
    /\ due' = IF checkpoint = Fresh THEN {} ELSE due
    /\ EndIngest
    /\ UNCHANGED <<remote, stored, checkpoint, failed>>

-------------------------------------------------------------------------------

IngestInit ==
    /\ now = 0 /\ onchain = <<>> /\ made = 0
    /\ stored = {}
    /\ checkpoint = Fresh
    /\ pc = "idle" /\ run = NoRun /\ due = {}
    /\ forks = 0 /\ failed = 0 /\ stops = 0

RunStep ==
    \/ Fetch \/ (\E id \in run.left : Write(id))
    \/ SavePage \/ SaveShortPage \/ EndPassOne \/ SaveLastPage
    \/ Complete \/ CompletePrefetched

IngestNext ==
    \/ NewBlock \/ (\E time \in 1..MaxTime : Fork(time))
    \/ BeginIngest \/ BeginPrefetched \/ RunStep
    \/ FailEarly \/ Fail \/ StopIngest

IngestSpec == IngestInit /\ [][IngestNext]_ingestVars

(* The job starts a run every five minutes, and a run goes on. *)
IngestFairSpec == IngestSpec /\ WF_ingestVars(BeginIngest \/ RunStep)

-------------------------------------------------------------------------------
(* Properties *)

(* A run that ends well has all votes in the database that were there when *)
(* it began afresh, or when the run did from whose checkpoint it goes on,  *)
(* and stayed.                                                             *)
AllVotes == Over => due \subseteq stored

(* A checkpoint never gets ahead of the database: the due votes that a run *)
(* from it will not read are written.                                      *)
CheckpointBehind ==
    \A i \in DOMAIN onchain :
        \/ onchain[i].id \notin due \ stored
        \/ onchain[i].time >= IF checkpoint.phase = "pass1" THEN checkpoint.cursor.time
                                                          ELSE checkpoint.min

(* A run of the ingestion that ends well has the votes that were there, and *)
(* no checkpoint is ahead of the database.                                  *)
VotesComplete == AllVotes /\ IngestTypeOK /\ CheckpointBehind

(* Once no block brings votes, all votes come to be in the database. *)
AllVotesArrive == <>[](Ids(onchain) \subseteq stored)
===============================================================================
