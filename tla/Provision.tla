------------------------------ MODULE Provision ------------------------------
(***************************************************************************)
(* How a miner gets its head and its keys (tee/provision.py and            *)
(* neurons/miner.py): operators challenge the TD with a fresh nonce, check *)
(* the attestation that answers it, and push a payload sealed to the key   *)
(* it attests; a threaded receiver attests, remembers nonces, and accepts  *)
(* one push; the miner waits for it before it serves.                      *)
(*                                                                         *)
(* A nonce stands for its attempt: the payload, and the session key the    *)
(* seal derives from it.  A TD's key is the number of its boot.  Requests  *)
(* and replies may be lost or late, and a sealed push delivered again.     *)
(***************************************************************************)
EXTENDS Integers, SequencesExt

CONSTANTS
  Operators,
  Payload,      \* what each pushes: "full", "headless", or "empty" ({} is a payload)
  MaxPending,   \* _MAX_PENDING_NONCES
  MaxNonces, MaxBoots,   \* bounds: attempts, boots
  Nobody

ASSUME ProvisionAssumption ==
  /\ Payload \in [Operators -> {"full", "headless", "empty"}]
  /\ {MaxPending, MaxNonces, MaxBoots} \subseteq Nat \ {0} /\ Nobody \notin Nat

VARIABLES
  owner,     \* the operator of each nonce so far, in order
  op,        \* operator |-> what its attempt waits for, and the key it got
  session,   \* operator |-> the attempt whose session key its file holds
  requests,  \* posted, and possibly to be delivered
  replies,   \* sent, and possibly to be delivered
  boot,      \* the TD's
  handlers,  \* threads past the first check of their request
  pending,   \* nonces attested and not spent, oldest first
  store,     \* ProvisionStore: whose values, and whose session key
  serving,   \* the attempt whose head the miner serves
  attested, spent, accepted   \* history of this boot

tdVars == <<handlers, pending, store, serving, attested, spent, accepted>>
provisionVars == <<owner, op, session, requests, replies, boot, tdVars>>

Nonces == 1..MaxNonces
Boots == 1..MaxBoots
Asks == [path : {"attest"}, nonce : Nonces, key : {0}]
Pushes == [path : {"push"}, nonce : Nonces, key : Boots]

ProvisionTypeOK ==
  /\ owner \in Seq(Operators) /\ Len(owner) <= MaxNonces
  /\ op \in [Operators -> [at : {"idle", "asked", "pushed", "told"}, nonce : Nonces \cup {0}, key : Boots \cup {0}]]
  /\ session \in [Operators -> Nonces \cup {Nobody}]
  /\ requests \subseteq Asks \cup Pushes /\ replies \subseteq Pushes \cup [path : {"attest"}, nonce : Nonces, key : Boots]
  /\ boot \in Boots
  /\ handlers \subseteq [path : {"attest", "push", "accept"}, nonce : Nonces, key : Boots \cup {0}]
  /\ pending \in Seq(Nonces) /\ Len(pending) <= MaxPending
  /\ store \in [values : Nonces \cup {Nobody}, session : Nonces \cup {Nobody}]
  /\ serving \in Nonces \cup {Nobody}
  /\ attested \in Seq(Nonces) /\ accepted \in Seq(Nonces) /\ spent \in Seq(Nonces)

Pushed(n) == Payload[owner[n]]
Ready == store.values # Nobody

FreshStore == [values |-> Nobody, session |-> Nobody]

ProvisionInit ==
  /\ owner = <<>> /\ boot = 1
  /\ op = [o \in Operators |-> [at |-> "idle", nonce |-> 0, key |-> 0]]
  /\ session = [o \in Operators |-> Nobody]
  /\ requests = {} /\ replies = {} /\ handlers = {} /\ pending = <<>>
  /\ store = FreshStore /\ serving = Nobody
  /\ attested = <<>> /\ spent = <<>> /\ accepted = <<>>

-----------------------------------------------------------------------------
(* push, at the operator: it may be run again at any time. *)
Challenge(o) ==
  /\ Len(owner) < MaxNonces /\ owner' = Append(owner, o)
  /\ op' = [op EXCEPT ![o] = [at |-> "asked", nonce |-> Len(owner'), key |-> 0]]
  /\ requests' = requests \cup {[path |-> "attest", nonce |-> Len(owner'), key |-> 0]}
  /\ UNCHANGED <<session, replies, boot, tdVars>>

(* provision_td.py --inspect: a quote over a nonce that is never spent *)
Inspect(o) ==
  /\ Len(owner) < MaxNonces /\ owner' = Append(owner, o)
  /\ requests' = requests \cup {[path |-> "attest", nonce |-> Len(owner'), key |-> 0]}
  /\ UNCHANGED <<op, session, replies, boot, tdVars>>

(* seal: to the TD's key, with a key derived from the nonce, which the
   envelope names *)
Seal(n, k) == [path |-> "push", nonce |-> n, key |-> k]

(* The quote is over this nonce and the key the payload is sealed to. *)
SealAndPush(o) ==
  /\ op[o].at = "asked"
  /\ \E r \in replies :
       /\ r.path = "attest" /\ r.nonce = op[o].nonce
       /\ op' = [op EXCEPT ![o].at = "pushed", ![o].key = r.key]
       /\ requests' = requests \cup {Seal(r.nonce, r.key)}
  /\ UNCHANGED <<owner, session, replies, boot, tdVars>>

(* {"provisioned": true}: push returns the session key. *)
Told(o) ==
  /\ op[o].at = "pushed"
  /\ [path |-> "push", nonce |-> op[o].nonce, key |-> op[o].key] \in replies
  /\ op' = [op EXCEPT ![o].at = "told"]
  /\ UNCHANGED <<owner, session, requests, replies, boot, tdVars>>

(* provision_td.py writes it over the one of an earlier push. *)
SaveSession(o) ==
  /\ op[o].at = "told" /\ op' = [op EXCEPT ![o].at = "idle"]
  /\ session' = [session EXCEPT ![o] = op[o].nonce]
  /\ UNCHANGED <<owner, requests, replies, boot, tdVars>>

(* A refusal, no answer within the timeout, or the script dies: no key *)
Abandon(o) ==
  /\ op[o].at # "idle" /\ op' = [op EXCEPT ![o].at = "idle"]
  /\ UNCHANGED <<owner, session, requests, replies, boot, tdVars>>

-----------------------------------------------------------------------------
(* do_POST's first check, before the body is read: 409 once provisioned *)
Arrive(r) ==
  /\ handlers' = IF Ready THEN handlers ELSE handlers \cup {r}
  /\ requests' = requests \ {q \in {r} : q.path = "attest"}
  /\ UNCHANGED <<owner, op, session, replies, boot, pending, store, serving, attested, spent, accepted>>

(* A dict in order of insertion, the oldest popped while it is too long *)
Remember(p, n) ==
  IF Len(p) >= MaxPending THEN Append(Tail(p), n) ELSE Append(p, n)

(* report_data_for: the nonce, and the key of this boot *)
ReportDataFor(n) == [path |-> "attest", nonce |-> n, key |-> boot]

Attest(h) ==
  /\ h.path = "attest"
  /\ handlers' = handlers \ {h}
  /\ pending' = Remember(pending, h.nonce) /\ attested' = Append(attested, h.nonce)
  /\ replies' = replies \cup {ReportDataFor(h.nonce)}
  /\ UNCHANGED <<owner, op, session, requests, boot, store, serving, spent, accepted>>

(* unseal: it opens what was sealed to this boot's key. *)
Unseals(h) == h.key = boot

(* Pop the nonce, and unseal. *)
Spend(h) ==
  /\ h.path = "push"
  /\ \/ /\ \E i \in DOMAIN pending : pending[i] = h.nonce /\ pending' = RemoveAt(pending, i)
        /\ spent' = Append(spent, h.nonce)
     \/ ~Contains(pending, h.nonce) /\ UNCHANGED <<pending, spent>>
  /\ handlers' = (handlers \ {h}) \cup
       (IF Contains(pending, h.nonce) /\ Unseals(h) THEN {[h EXCEPT !.path = "accept"]} ELSE {})
  /\ UNCHANGED <<owner, op, session, requests, replies, boot, store, serving, attested, accepted>>

(* Mutant of Refused: the check at the door is enough *)
RefusedNever(s) == FALSE

Refused(s) == s.values # Nobody

(* ProvisionStore.accept, under its lock *)
Accept(h) ==
  /\ h.path = "accept" /\ handlers' = handlers \ {h}
  /\ IF Refused(store)
       THEN UNCHANGED <<store, replies, accepted>>
       ELSE /\ store' = [values |-> IF Pushed(h.nonce) = "empty" THEN Nobody ELSE h.nonce,
                         session |-> h.nonce]
            /\ replies' = replies \cup {[h EXCEPT !.path = "push"]}
            /\ accepted' = Append(accepted, h.nonce)
  /\ UNCHANGED <<owner, op, session, requests, boot, pending, serving, attested, spent>>

(* _await_provisioning returns, and the axon serves. *)
Serve ==
  /\ Ready /\ serving = Nobody /\ Pushed(store.values) = "full"
  /\ serving' = store.values
  /\ UNCHANGED <<owner, op, session, requests, replies, boot, handlers, pending, store, attested, spent, accepted>>

Forget == store' = FreshStore

(* The instance is stopped and started, or the miner exits: it was pushed no
   head.  A new key, and nothing else survives. *)
Reboot ==
  /\ boot < MaxBoots /\ boot' = boot + 1
  /\ handlers' = {} /\ pending' = <<>> /\ Forget /\ serving' = Nobody
  /\ attested' = <<>> /\ spent' = <<>> /\ accepted' = <<>>
  /\ UNCHANGED <<owner, op, session, requests, replies>>

ProvisionNext ==
  \/ \E o \in Operators : Challenge(o) \/ Inspect(o) \/ SealAndPush(o) \/ Told(o)
       \/ SaveSession(o) \/ Abandon(o)
  \/ \E r \in requests : Arrive(r)
  \/ \E h \in handlers : Attest(h) \/ Spend(h) \/ Accept(h)
  \/ Serve \/ Reboot

ProvisionSpec == ProvisionInit /\ [][ProvisionNext]_provisionVars

-----------------------------------------------------------------------------
Times(s, n) == Cardinality({i \in DOMAIN s : s[i] = n})

(* "ONE push per process": the operator that was told its push was taken, by
   this boot, still holds the only key to the logs, in its file or about to be
   there, whatever other pushes passed the first check with its own, and
   whatever it tried since.  A push without a field is none. *)
KeyOf(o) == {session[o]} \cup IF op[o].at = "told" THEN {op[o].nonce} ELSE {}
TheToldHoldTheKey ==
  \A o \in Operators : \A n \in KeyOf(o) :
    [path |-> "push", nonce |-> n, key |-> boot] \in requests /\ Payload[o] # "empty" =>
      store = [values |-> n, session |-> n]

(* "consumes each nonce once": as often as a push is delivered, it is taken
   once, and only if this boot attested its nonce. *)
AcceptedAsAttested ==
  \A n \in Nonces : Times(accepted, n) <= Times(attested, n)

(* A full nonce store costs an operator its attempt only if MaxPending others
   were attested since its own: not even then is a later one lost. *)
EvictedInOrder ==
  \A i \in DOMAIN attested :
    Contains(spent, attested[i]) \/ Contains(pending, attested[i])
      \/ Cardinality({attested[j] : j \in i + 1..Len(attested)}) >= MaxPending

(* What the miner serves was pushed in this boot, to this boot's key, by an
   operator that had this boot's attestation ("the miner saw a valid quote and
   the key is present are the same event", provision.py). *)
ServesThisBoot ==
  serving # Nobody =>
    /\ Contains(accepted, serving) /\ Contains(attested, serving)
    /\ [path |-> "push", nonce |-> serving, key |-> boot] \in requests

(* One push per boot, whatever pushes and attestations race it. *)
ProvisionSafety ==
  /\ ProvisionTypeOK /\ TheToldHoldTheKey /\ AcceptedAsAttested
  /\ EvictedInOrder /\ ServesThisBoot

=============================================================================
