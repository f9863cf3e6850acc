------------------------ MODULE SpeculativeScheduler ------------------------
(***************************************************************************)
(* Scheduler.step with n-gram speculation, _speculate_verify: before the   *)
(* passes of a synchronous step, decode requests with a draft are run      *)
(* through one extend pass that writes a row for the last token and for    *)
(* every drafted one.  The drafts the model agrees with are output, and    *)
(* the token it would have sampled next; these tokens are harvested before *)
(* the step's other passes run.  The pipelined step does not speculate.    *)
(*                                                                         *)
(* What the proposer drafts is any sequence: right up to some token, wrong *)
(* from there on; none for anybody is the step with the switch off.  The   *)
(* executors return logits, so the fallback for an executor without them   *)
(* is left out.                                                            *)
(***************************************************************************)
EXTENDS PipelinedScheduler

CONSTANT MaxDraft    \* NgramProposer.max_draft

ASSUME SpeculationAssumption == MaxDraft \in Nat

\* A token the model does not predict.
WrongToken == MaxSeqLen + 1

\* reserve_speculative: how many rows of an n-token draft fit.
Fit(c, r, n) ==
  LET fits == {k \in 1 .. Smaller(n, MaxSeqLen - SeqLen(r)) : Fits(c, r, SeqLen(r) + k, <<>>)}
  IN  Max(fits \cup {0})

\* Mutant: the mappings the decode plan staged are replaced.
MutantReplacePlan(plan, writes) == writes

\* The mappings staged so far and the new ones.
AppendPlan(plan, writes) == [start |-> plan.start, blocks |-> plan.blocks \o writes.blocks]

\* One request offers its draft of n tokens to the pool.  s holds the cache,
\* the block plans and the rows granted so far.
Reserve(s, r, n) ==
  LET k     == Fit(s.cache, r, n)
      grown == Allocate(s.cache, r, SeqLen(r) + k, <<>>)
  IN  IF k = 0 THEN s
      ELSE [cache |-> TakeTableWrites(grown, r),
            plan  |-> [s.plan EXCEPT ![r] = AppendPlan(@, TableWrites(grown, r))],
            rows  |-> [s.rows EXCEPT ![r] = k]]

\* Mutant: the first draft the model rejects is output as well.
MutantKeepMismatch(right, granted) == Smaller(right + 1, granted)

\* The drafts that are kept, of which the first right ones agree.
Accepted(right, granted) == Smaller(right, granted)

\* A draft: n tokens (0: nothing found), of which the first right ones are
\* what the model predicts; stop is the place at which it predicts the stop
\* token (0: nowhere).
Drafts ==
  {d \in [n : 0 .. MaxDraft, right : 0 .. MaxDraft, stop : 0 .. MaxDraft + 1] :
     d.right <= d.n /\ d.stop <= d.right + 1 /\ (d.stop > 0 => d.n > 0)}

\* The verify pass.  Elsewhere the prediction at a place is the place.
Verify(drafts) ==
  LET s == FoldLeft(LAMBDA x, r : Reserve(x, r, drafts[r].n),
                    [cache |-> cache, plan |-> block_plan, rows |-> [r \in Requests |-> 0]], decode)
      drafted   == SelectSeq(decode, LAMBDA r : s.rows[r] > 0)
      predicted(r, j) == IF drafts[r].stop = j THEN StopToken ELSE SeqLen(r) + j
      draft(r, j) == IF j <= drafts[r].right THEN predicted(r, j) ELSE WrongToken
      kept(r)   == Accepted(drafts[r].right, s.rows[r])
      out(r)    == [j \in 1 .. kept(r) + 1 |->
                      <<r, IF j <= kept(r) THEN draft(r, j) ELSE predicted(r, j)>>]
      stretch(r) == [slot |-> slot[r], start |-> SeqLen(r) - 1,
                     tokens |-> Sequence(r) \o [j \in 1 .. s.rows[r] |-> draft(r, j)]]
      mapped    == FoldLeft(LAMBDA t, r : WriteTable(t, slot[r], s.plan[r]), table, drafted)
      pass      == RowPass(kv, mapped, {stretch(r) : r \in Elements(drafted)})
  IN
  /\ drafted # <<>>
  /\ cache' = s.cache
  /\ block_plan' = s.plan
  /\ table' = mapped
  /\ kv' = pass.kv
  /\ misread' = (misread \/ pass.misled # {})
  /\ emitted' = FlattenSeq([i \in 1 .. Len(drafted) |-> out(drafted[i])])
  /\ decode' = SelectSeq(decode, LAMBDA r : s.rows[r] = 0)

SpeculateVerify ==
  /\ pc = "execute" /\ decode # <<>>
  /\ \E drafts \in [Elements(decode) -> Drafts] :
       /\ \A r \in Elements(decode) : drafts[r].stop > 0 => r \in MayStop
       /\ Verify(drafts)
  /\ advanced' = {}
  /\ pc' = "verify"
  /\ UNCHANGED <<status, prompt, output, max_new_tokens, num_computed, slot, pending_tokens,
                 waiting, running, free_slots, pending_blocks, deferred_steps,
                 cursor, current, prefill, preempted, sent, delivered, asked>>

\* A token past the request's end belongs to nobody.
PastStop(r) == status[r] = "finished"

\* _harvest of one token of the verified stretches.
HarvestVerified ==
  /\ pc = "verify" /\ emitted # <<>>
  /\ LET r == Head(emitted)[1]
         t == Head(emitted)[2]
     IN  \/ /\ PastStop(r)
            /\ UNCHANGED <<output, advanced, status, free_slots, slot, running, waiting,
                           pending_blocks, cache>>
         \/ ~PastStop(r) /\ t = StopToken /\ TakeStop(r)
         \/ ~PastStop(r) /\ t # StopToken /\ TakeToken(r, t)
  /\ emitted' = Tail(emitted)
  /\ UNCHANGED <<prompt, max_new_tokens, num_computed, block_plan, pending_tokens, deferred_steps,
                 planVars, deviceVars, sent, delivered, asked>>

\* The step's other passes, if there are any.
RestOfStep ==
  /\ pc = "verify" /\ emitted = <<>>
  /\ RunPasses
  /\ UNCHANGED advanced

SNext ==
  \/ PNext
  \/ /\ depth = 0
     /\ SpeculateVerify \/ HarvestVerified \/ RestOfStep
     /\ UNCHANGED pipeVars

SSpec == PInit /\ [][SNext]_pVars
=============================================================================
