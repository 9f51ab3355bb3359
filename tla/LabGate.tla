------------------------------ MODULE LabGate ------------------------------
(***************************************************************************)
(* The gates of the reverse lab (reverse_lab/gate.py) and their command    *)
(* line (cli.py): verification of a sample and approval of a promotion.    *)
(* Every call reads its files one by one while people edit the allowlist   *)
(* and the workspace, and appends what a gate decided to                   *)
(* audit/operations.jsonl; a file that cannot be read outside a gate, and  *)
(* an actor that no event may name, are answered with no event.            *)
(***************************************************************************)
EXTENDS Naturals, FiniteSets

CONSTANTS
  LabCalls,  \* calls of the command line
  LabScopes, \* targets that an authorization may name
  LabEdits   \* bound: edits of the workspace by people

ASSUME LabAssumption == LabEdits \in Nat

VARIABLES
  labTarget,  \* the allowlist entry of the target
  labSample,  \* the sample file: as registered, changed, or missing
  labCall,    \* each call: where it is, its actor and files, its answer and why
  labAudit,   \* the audit file: events with their call
  labValid,   \* history: the target was allowed for this scope since the call's verification
  labEdited

labVars == <<labTarget, labSample, labCall, labAudit, labValid, labEdited>>
-----------------------------------------------------------------------------
\* TargetAuthorization: allowed and inside its dates, or not; its scope.
LabTarget == [allowed : BOOLEAN, scope : SUBSET LabScopes, userData : BOOLEAN]

\* SampleManifest, FindingRecord and PromotionReview, as far as a gate reads
\* them. `agree': the finding is of this sample and of an allowed tool with
\* nothing restricted in it, and an approved review is of this finding. `actor':
\* the call names one that an audit event takes.
LabFiles ==
  [actor : BOOLEAN, secrets : BOOLEAN, userData : BOOLEAN, agree : BOOLEAN,
   proposed : SUBSET LabScopes, reviewed : SUBSET LabScopes]

LabNoFiles ==
  [actor |-> FALSE, secrets |-> FALSE, userData |-> FALSE, agree |-> FALSE,
   proposed |-> {}, reviewed |-> {}]

LabCalled(files, promote) ==
  [pc |-> "verify", files |-> files, promote |-> promote, answer |-> "none", why |-> "none"]

LabInit ==
  /\ labTarget \in {t \in LabTarget : t.allowed}
  /\ labSample = "registered"
  /\ labCall = [c \in LabCalls |-> [LabCalled(LabNoFiles, FALSE) EXCEPT !.pc = "out"]]
  /\ labAudit = {}
  /\ labValid = {}
  /\ labEdited = 0

LabScoped(target, files) == target.allowed /\ files.reviewed \subseteq target.scope

\* People edit the allowlist or the samples.
LabEdit ==
  /\ labEdited < LabEdits
  /\ labEdited' = labEdited + 1
  /\ \/ labTarget' \in LabTarget /\ UNCHANGED labSample
     \/ labSample' \in {"registered", "changed", "missing"} /\ UNCHANGED labTarget
  /\ labValid' = labValid \cup {c \in LabCalls : labCall[c].pc = "verified"
                                                /\ LabScoped(labTarget', labCall[c].files)}
  /\ UNCHANGED <<labCall, labAudit>>

LabGo(c, pc) == labCall' = [labCall EXCEPT ![c].pc = pc]
LabAnswer(c, answer, why) ==
  labCall' = [labCall EXCEPT ![c].pc = "over", ![c].answer = answer, ![c].why = why]

\* The command line reads the manifest before the gate's try: a path outside
\* manifests/, a missing or invalid file is answered `rejected', with no event.
LabBegin(c) ==
  /\ labCall[c].pc = "out"
  /\ \E files \in LabFiles, promote \in BOOLEAN :
       labCall' = [labCall EXCEPT ![c] = LabCalled(files, promote)]
  /\ UNCHANGED <<labTarget, labSample, labAudit, labValid, labEdited>>

LabNoManifest(c) ==
  /\ labCall[c].pc = "out"
  /\ LabAnswer(c, "rejected", "manifest")
  /\ UNCHANGED <<labTarget, labSample, labAudit, labValid, labEdited>>

LabEvent(c, action, outcome) ==
  labAudit' = labAudit \cup {[call |-> c, action |-> action, outcome |-> outcome]}

\* What verify_sample checks; the sample file is read after the allowlist, and
\* an edit in between reaches only the check that comes later.
LabVerifies(target, files, sample) ==
  /\ target.allowed
  /\ sample = "registered"
  /\ ~files.secrets
  /\ files.userData => target.userData

LabReadTarget(c) ==
  /\ labCall[c].pc = "verify"
  /\ labCall' = [labCall EXCEPT ![c].pc =
       IF LabVerifies(labTarget, labCall[c].files, "registered") THEN "sample" ELSE "reject"]
  /\ UNCHANGED <<labTarget, labSample, labAudit, labValid, labEdited>>

LabReadSample(c) ==
  /\ labCall[c].pc = "sample"
  /\ LabGo(c, IF labSample = "registered" THEN "allow" ELSE "reject")
  /\ UNCHANGED <<labTarget, labSample, labAudit, labValid, labEdited>>

\* verify_sample ends: the event, then the answer; a promotion goes on.
LabVerified(c) ==
  /\ labCall[c].pc \in {"allow", "reject"}
  /\ labCall[c].files.actor
  /\ LabEvent(c, "verify_sample", IF labCall[c].pc = "allow" THEN "allowed" ELSE "rejected")
  /\ IF labCall[c].pc = "allow" /\ labCall[c].promote
     THEN /\ LabGo(c, "verified")
          /\ labValid' = IF LabScoped(labTarget, labCall[c].files) THEN labValid \cup {c} ELSE labValid
     ELSE /\ LabAnswer(c, IF labCall[c].pc = "allow" THEN "allowed" ELSE "rejected", "gate")
          /\ UNCHANGED labValid
  /\ UNCHANGED <<labTarget, labSample, labEdited>>

\* _audit refuses the actor: for the allowed event, and then again for the
\* rejected one that should replace it.
LabUnnamed(c) ==
  /\ labCall[c].pc \in {"allow", "reject"}
  /\ ~labCall[c].files.actor
  /\ LabAnswer(c, "rejected", "actor")
  /\ UNCHANGED <<labTarget, labSample, labAudit, labValid, labEdited>>

\* The finding or the review is missing or invalid: before the try as well.
LabUnreadable(c) ==
  /\ labCall[c].pc = "verified"
  /\ LabAnswer(c, "rejected", "record")
  /\ UNCHANGED <<labTarget, labSample, labAudit, labValid, labEdited>>

\* Mutant: the target is not read a second time.
LabDecidesOnce(target, files) ==
  files.agree /\ files.proposed \subseteq files.reviewed

\* approve_promotion: the allowlist is read again, then the records compared.
LabDecides(target, files) ==
  /\ LabScoped(target, files)
  /\ files.agree
  /\ files.proposed \subseteq files.reviewed

LabRead(c) ==
  /\ labCall[c].pc = "verified"
  /\ LabGo(c, IF LabDecides(labTarget, labCall[c].files) THEN "approve" ELSE "refuse")
  /\ UNCHANGED <<labTarget, labSample, labAudit, labValid, labEdited>>

\* Mutant: a refused promotion raises before its event.
LabApproveOnly(c) ==
  /\ labCall[c].pc \in {"approve", "refuse"}
  /\ IF labCall[c].pc = "approve" THEN LabEvent(c, "approve_promotion", "allowed") ELSE UNCHANGED labAudit
  /\ LabAnswer(c, IF labCall[c].pc = "approve" THEN "allowed" ELSE "rejected", "gate")
  /\ UNCHANGED <<labTarget, labSample, labValid, labEdited>>

LabApproved(c) ==
  /\ labCall[c].pc \in {"approve", "refuse"}
  /\ LabEvent(c, "approve_promotion", IF labCall[c].pc = "approve" THEN "allowed" ELSE "rejected")
  /\ LabAnswer(c, IF labCall[c].pc = "approve" THEN "allowed" ELSE "rejected", "gate")
  /\ UNCHANGED <<labTarget, labSample, labValid, labEdited>>

\* What is not a LabGateError ends the call with a traceback, at any step: a file
\* that is no UTF-8, a sample gone after is_file, an event that is not written.
LabRaises(c) ==
  /\ labCall[c].pc # "over"
  /\ LabAnswer(c, "raised", "none")
  /\ UNCHANGED <<labTarget, labSample, labAudit, labValid, labEdited>>

LabNext ==
  \/ LabEdit
  \/ \E c \in LabCalls :
       \/ LabBegin(c) \/ LabNoManifest(c) \/ LabReadTarget(c) \/ LabReadSample(c)
       \/ LabVerified(c) \/ LabUnnamed(c) \/ LabUnreadable(c) \/ LabRead(c)
       \/ LabApproved(c) \/ LabRaises(c)

LabSpec == LabInit /\ [][LabNext]_labVars
-----------------------------------------------------------------------------
LabTypeOK ==
  /\ labTarget \in LabTarget
  /\ labSample \in {"registered", "changed", "missing"}
  /\ \A c \in LabCalls :
       /\ labCall[c].pc \in {"out", "verify", "sample", "allow", "reject", "verified",
                             "approve", "refuse", "over"}
       /\ labCall[c].files \in LabFiles /\ labCall[c].promote \in BOOLEAN
       /\ labCall[c].answer \in {"none", "allowed", "rejected", "raised"}
       /\ labCall[c].why \in {"none", "gate", "manifest", "actor", "record"}
  /\ labAudit \subseteq [call : LabCalls, action : {"verify_sample", "approve_promotion"},
                         outcome : {"allowed", "rejected"}]
  /\ labValid \subseteq LabCalls /\ labEdited \in 0..LabEdits

LabEvents(c, action) == {e.outcome : e \in {x \in labAudit : x.call = c /\ x.action = action}}

\* What the events of a call at each gate say of its answer.
LabAccounted(call, verify, approve, valid) ==
  /\ call.answer = "allowed" =>
       /\ verify = {"allowed"}
       /\ approve = IF call.promote THEN {"allowed"} ELSE {}
       /\ call.promote => valid /\ call.files.proposed \subseteq call.files.reviewed
  /\ call.answer = "rejected" =>
       CASE call.why = "gate" ->
              \/ verify = {"rejected"} /\ approve = {}
              \/ call.promote /\ verify = {"allowed"} /\ approve = {"rejected"}
         [] call.why = "record" -> call.promote /\ verify = {"allowed"} /\ approve = {}
         [] OTHER -> verify = {} /\ approve = {}

\* What a gate decided leaves the lab with its event: an allowed call has allowed
\* events of each of its gates and nothing else, one that a gate rejected has that
\* gate's rejected event and no allowed one of it. Without an event of its own a
\* call is only ever refused: for its manifest or its actor with an empty audit,
\* for a finding or review with the allowed verification alone (gate.py:96-198).
\* And an approval rests on an authorization that was valid, for the reviewed
\* scope, at some moment after the sample had been verified, however the
\* allowlist was edited.
LabDecisionsHold ==
  \A c \in LabCalls :
    LabAccounted(labCall[c], LabEvents(c, "verify_sample"), LabEvents(c, "approve_promotion"),
                 c \in labValid)
=============================================================================
