----------------------------- MODULE ProofChecks -----------------------------
(***************************************************************************)
(* One proof from the machine that attests it to a validator's verdict:    *)
(* what RTMR3 holds after boots and process starts (neurons/miner.py main, *)
(* tee/attestation.py extend_rtmr3), the proof and its quote (tee/proof.py,*)
(* tee/runtime.py, tee/dstack_client.py), and the checks of                *)
(* tee/verify.py verify_proof, in their order.                             *)
(*                                                                         *)
(* A hash stands for what it hashes, so the register is the sequence of    *)
(* values extended into it.  A certificate chain is module CertChain; here *)
(* the TPM half is only bound to its quote.                                *)
(***************************************************************************)
EXTENDS Naturals, Sequences, FiniteSets

CONSTANTS
  AskedHotkey,   \* the hotkey of the UID that answers
  OtherHotkey,   \* another the machine may serve
  LastNonce,     \* bound: epochs
  MaxBoots,      \* bound: boots of the machine
  MaxStarts,     \* bound: starts of the miner process in a boot
  MaxBundles     \* bound: proofs kept to be delivered

ASSUME ChecksAssumption ==
  /\ LastNonce \in Nat \ {0} /\ MaxBoots \in Nat /\ MaxStarts \in Nat
  /\ MaxBundles \in Nat \ {0}

VARIABLES
  image,     \* measured (dstack), plain, or none: a mock runtime
  app,       \* the application on it
  boot,      \* boots so far
  extends,   \* what RTMR3 was extended with since the boot
  starts,    \* starts of the process in this boot
  process,   \* the hotkey and the head it serves, if it runs
  nonce,     \* the epoch
  bundles,   \* history: proofs made
  judged     \* the last verdict, and of what

machineVars == <<image, app, boot, extends, starts, process>>
checksVars == <<machineVars, nonce, bundles, judged>>

Stopped == [hotkey |-> "none", head |-> "none"]
Unjudged == [verdict |-> "none"]
ProofHotkeys == {AskedHotkey, OtherHotkey}
ProvedHeads == {"committed", "former"}
Served == {[hotkey |-> AskedHotkey, head |-> h] : h \in ProvedHeads}
            \cup {[hotkey |-> OtherHotkey, head |-> "committed"]}

(* How a benchmark went: every call answered, or one that failed (a cost that
   is the integer 0), exploration calls failing alone, a record of the proxy
   missing from an answer, a pool that is not the pinned one. *)
Courses == {"clean", "call_failed", "exploration_failed", "record_late", "other_pool"}
Body == [hotkey : ProofHotkeys, nonce : 1..LastNonce, head : ProvedHeads, course : Courses,
         cost : {"int", "float"}]
Apps == {"approved", "other"}
Events == ({"compose-hash", "identity"} \X Apps) \cup ({"instance-id"} \X (1..MaxBoots))
Images == {"measured", "plain", "none"}
Verdicts == {"valid", "invalid", "unverifiable"}

ChecksTypeOK ==
  /\ image \in Images /\ app \in Apps
  /\ boot \in 0..MaxBoots /\ starts \in 0..MaxStarts
  /\ process # Stopped => process \in Served /\ starts > 0
  /\ extends \in Seq(Events) /\ (image = "plain" => Len(extends) <= starts)
  /\ nonce \in 1..LastNonce
  /\ Len(bundles) <= MaxBundles /\ \A i \in DOMAIN bundles : bundles[i].body \in Body
  /\ judged # Unjudged => judged.verdict \in Verdicts

ChecksBlank ==
  /\ boot = 0 /\ extends = <<>> /\ starts = 0 /\ process = Stopped
  /\ nonce = 1 /\ bundles = <<>> /\ judged = Unjudged

ChecksInit == image \in Images /\ app \in Apps /\ ChecksBlank

(* A verdict changes nothing that follows, and ends the behaviour; the bounds
   end it too. *)
Goes == judged = Unjudged /\ Len(bundles) < MaxBundles

-----------------------------------------------------------------------------
(* The machine *)

(* A measured image extends RTMR3 in its initrd, with what it runs and an
   instance id of its own. *)
BootEvents == <<<<"compose-hash", app>>, <<"instance-id", boot'>>>>

Boot ==
  /\ Goes /\ boot < MaxBoots /\ boot' = boot + 1
  /\ extends' = IF image = "measured" THEN BootEvents ELSE <<>>
  /\ starts' = 0 /\ process' = Stopped
  /\ UNCHANGED <<image, app, nonce, bundles, judged>>

(* runtime_identity: of the sources, the pool, the grader and the upstream it
   asks, and of nothing that an epoch or a process changes. *)
RuntimeIdentity(a) == <<"identity", a>>

(* The process starts, again after a crash: extend_rtmr3 succeeds or not on a
   plain machine, and never inside the container of a measured one.  A plain
   image is not locked: what is extended there is what the software on it
   chose, its own identity or another ("advisory until the image is locked"). *)
StartProcess ==
  /\ Goes /\ boot > 0 /\ starts < MaxStarts /\ starts' = starts + 1
  /\ process' \in Served
  /\ \/ /\ image = "plain"
        /\ \E a \in Apps : extends' = Append(extends, RuntimeIdentity(a))
     \/ UNCHANGED extends
  /\ UNCHANGED <<image, app, boot, nonce, bundles, judged>>

NextEpoch ==
  /\ judged = Unjudged /\ nonce < LastNonce /\ nonce' = nonce + 1
  /\ UNCHANGED <<machineVars, bundles, judged>>

-----------------------------------------------------------------------------
(* The proof *)

(* generate_attestation: the guest agent's envelope on a measured image, with
   the log and the TPM quote; a bare quote elsewhere.  An entry of the log has
   the digest that was extended and, in fields of their own, the event's name
   and payload: here the log is its digests, and what it names is apart. *)
Attested(body) ==
  [report |-> body, image |-> image, rtmr3 |-> IF image = "none" THEN <<>> ELSE extends]

Log == IF image = "measured" THEN extends ELSE <<>>

Prove ==
  /\ Goes /\ process # Stopped
  /\ \E course \in Courses :
       LET body == [hotkey |-> process.hotkey, nonce |-> nonce, head |-> process.head,
                    course |-> course, cost |-> IF course = "call_failed" THEN "int" ELSE "float"]
       IN  bundles' = Append(bundles, [body |-> body, quote |-> Attested(body), log |-> Log,
                                       app |-> app])
  /\ UNCHANGED <<machineVars, nonce, judged>>

(* A response is put together of parts; each is of some proof that was made.
   Only a measured image has a TPM quote and a log; the payload of the log's
   compose-hash event names the application extended, or another. *)
Parts == {"body", "quote", "tpm", "log", "response"}
Deliveries ==
  {d \in [of : [Parts -> DOMAIN bundles], names : Apps] :
     image # "measured" =>
       d.of["tpm"] = d.of["quote"] /\ d.of["log"] = d.of["quote"] /\ d.names = app}

(* The response of one proof, as it was made. *)
Unaltered(i) == [of |-> [part \in Parts |-> i], names |-> app]

(* BenchmarkProof.from_dict: every number keeps the type JSON carried. *)
FromDict(body) == body

BodyOf(d) == FromDict(bundles[d.of["body"]].body)
QuoteOf(d) == bundles[d.of["quote"]].quote
LogOf(d) == bundles[d.of["log"]].log

-----------------------------------------------------------------------------
(* The checks *)

(* parse_approved: on the measured image this compose, on the plain one this
   runtime identity; the mock runtime's registers are on no list. *)
Approved == [measured |-> {"approved"}, plain |-> {"approved"}, none |-> {}]

(* measurement_id: of MRTD, RTMR1 and RTMR2, which the boots of an image share
   on every machine; what RTMR3 holds is not in it. *)
MeasurementId(quote) == quote.image

(* expected_rtmr3: one extend of an identity, replayed from a fresh boot *)
ExpectedRtmr3(a) == <<RuntimeIdentity(a)>>

(* parse_attest: the quote a TPM message was made over *)
ExtraData(d) == bundles[d.of["tpm"]].quote

(* Mutant of Unwraps: the TPM quote may be another's. *)
UnwrapsUnbound(d) == TRUE

(* verify_tpm_quote and the binding of its extra_data to the quote *)
Unwraps(d) == QuoteOf(d).image = "measured" => ExtraData(d) = QuoteOf(d)

(* With a log: its digests reproduce RTMR3 (replay_event_log), and what it
   names is approved; the two are not compared with each other.
   Without: RTMR3 is what one extend of an approved identity gives. *)
AppMatches(d) ==
  IF LogOf(d) # <<>>
  THEN LogOf(d) = QuoteOf(d).rtmr3 /\ d.names \in Approved["measured"]
  ELSE \E a \in Approved[MeasurementId(QuoteOf(d))] : QuoteOf(d).rtmr3 = ExpectedRtmr3(a)

(* verify_proof, in its order *)
LocalOrder == <<"hotkey", "unwrap", "report", "nonce", "questions", "head", "contract",
                "advertised", "failures", "costs", "hardware", "image", "app">>

(* What holds of a delivery; hardware is asked apart.  The script gives the
   checks no head and no commitment. *)
Passes(check, d, by) ==
  CASE check = "hotkey" -> BodyOf(d).hotkey = AskedHotkey
    [] check = "unwrap" -> Unwraps(d)
    [] check = "report" -> QuoteOf(d).report = BodyOf(d)
    [] check = "nonce" -> BodyOf(d).nonce = nonce
    [] check = "questions" -> BodyOf(d).course # "other_pool"
    [] check = "head" -> BodyOf(d).head = "committed"
                         /\ bundles[d.of["response"]].body.head = BodyOf(d).head
    [] check = "contract" -> by = "validator"
    [] check = "advertised" -> bundles[d.of["response"]].body = BodyOf(d)
    [] check = "failures" -> BodyOf(d).course # "exploration_failed"
    [] check = "costs" -> BodyOf(d).course # "record_late"
    [] check = "hardware" -> QuoteOf(d).image # "none"
    [] check = "image" -> Approved[MeasurementId(QuoteOf(d))] # {}
    [] check = "app" -> AppMatches(d)

(* Skipped under mock, and with no head to check *)
Skipped(mock, by) ==
  (IF mock THEN {"contract", "hardware", "image", "app"} ELSE {})
    \cup (IF by = "script" THEN {"head"} ELSE {})

Position(check) == CHOOSE i \in DOMAIN LocalOrder : LocalOrder[i] = check

(* The first check that does not hold ends it. *)
Stops(d, mock, by) ==
  {i \in DOMAIN LocalOrder :
     LocalOrder[i] \notin Skipped(mock, by) /\ ~Passes(LocalOrder[i], d, by)}

Asked(stops, mock) == ~mock /\ \A i \in stops : i >= Position("hardware")

VerdictOf(stops, mock, collateral) ==
  IF Asked(stops, mock) /\ ~collateral THEN "unverifiable"
  ELSE IF stops = {} THEN "valid" ELSE "invalid"

Verify(d, mock, by) ==
  LET stops == Stops(d, mock, by)
  IN  \E collateral \in BOOLEAN :
        judged' = [verdict |-> VerdictOf(stops, mock, collateral), delivery |-> d,
                   mock |-> mock, fetched |-> Asked(stops, mock), by |-> by]

(* verify_proof, for the hotkey of the UID that answered; mock validators are
   for mock miners. *)
Judge ==
  /\ judged = Unjudged /\ bundles # <<>>
  /\ \E d \in Deliveries, mock \in {FALSE, image = "none"} : Verify(d, mock, "validator")
  /\ UNCHANGED <<machineVars, nonce, bundles>>

(* An operator asks its own miner (scripts/verify_live_miner.py). *)
LiveCheck ==
  /\ judged = Unjudged
  /\ \E i \in DOMAIN bundles, mock \in {FALSE, image = "none"} :
       Verify(Unaltered(i), mock, "script")
  /\ UNCHANGED <<machineVars, nonce, bundles>>

ChecksNext == Boot \/ StartProcess \/ NextEpoch \/ Prove \/ Judge \/ LiveCheck

ChecksSpec == ChecksInit /\ [][ChecksNext]_checksVars

-----------------------------------------------------------------------------
Judged == judged # Unjudged
Given(part) == bundles[judged.delivery.of[part]]

(* "The hardware attests whose proof this is": a valid proof was made, as it
   was received, for the hotkey that was asked, in this epoch, with the head it
   committed, by a machine whose own quote covers it.  Out of mock, on a
   measured image, the TPM quote is of that very quote, the log is the boot's
   the quote was made in, and a log that names what was extended names an
   approved application; on a plain one the register was extended once since
   the boot, with an approved identity.
   No stale, relayed or reassembled answer is accepted.  Which application runs
   is said of no other log, whose payload the digests do not cover, and of no
   plain image, whose register is advisory (extend_rtmr3). *)
ValidIsAttested ==
  Judged /\ judged.verdict = "valid" =>
    /\ Given("body").body = Given("quote").body
    /\ Given("body").body.hotkey = AskedHotkey /\ Given("body").body.nonce = nonce
    /\ judged.by = "validator" => Given("response").body.head = "committed"
    /\ ~judged.mock =>
         /\ image # "none"
         /\ image = "measured" =>
              /\ Given("tpm").quote = Given("quote").quote
              /\ Given("log").quote.rtmr3 = Given("quote").quote.rtmr3
              /\ judged.delivery.names = Given("quote").app => Given("quote").app = "approved"
         /\ image = "plain" => Given("quote").quote.rtmr3 = <<RuntimeIdentity("approved")>>

(* "A fetch now only ever follows a fresh quote over a fresh content hash that
   names this miner, this epoch and this slice" (verify_proof, check 11), so no
   other proof draws on the collateral budget the miners share. *)
FetchFollowsFreshQuote ==
  Judged /\ judged.fetched =>
    /\ Given("body").body = Given("quote").body
    /\ Given("body").body.hotkey = AskedHotkey /\ Given("body").body.nonce = nonce
    /\ Given("body").body.course \in {"clean", "call_failed"}

Honest ==
  /\ \E i \in DOMAIN bundles : judged.delivery = Unaltered(i)
  /\ Given("body").body.hotkey = AskedHotkey /\ Given("body").body.nonce = nonce
  /\ Given("body").body.head = "committed"
  /\ Given("body").body.course \in {"clean", "call_failed"}

(* On an approved image an honest proof is called invalid for one reason: its
   application, a failed call in it or not.  From an approved application on a
   measured image it never is, after any number of deployments and process
   restarts, though each has another RTMR3, and whether or not this validator
   could fetch the collateral; on a plain machine it is not if the register was
   extended once since the boot, with an approved identity, and cannot be valid
   otherwise: a process that restarts ends what the machine can prove until the
   next boot. *)
HonestIsNotInvalid ==
  Judged /\ judged.by = "validator" /\ Honest /\ ~judged.mock =>
    /\ image = "measured" /\ Given("quote").app = "approved" => judged.verdict # "invalid"
    /\ image = "plain" =>
         IF Given("quote").quote.rtmr3 = <<RuntimeIdentity("approved")>>
         THEN judged.verdict # "invalid" ELSE judged.verdict # "valid"

(* scripts/verify_live_miner.py: "Query one miner and verify its proof the way
   a --live validator would": what a live validator accepts, it confirms. *)
ScriptConfirmsHonest ==
  Judged /\ judged.by = "script" /\ Honest /\ ~judged.mock /\ image = "measured"
    /\ Given("quote").app = "approved" => judged.verdict # "invalid"

(* What the order of the checks of verify_proof makes of every answer, honest,
   stale, relayed or reassembled. *)
ChecksSafety ==
  ChecksTypeOK /\ ValidIsAttested /\ FetchFollowsFreshQuote /\ HonestIsNotInvalid

=============================================================================
