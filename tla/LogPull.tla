------------------------------- MODULE LogPull -------------------------------
(***************************************************************************)
(* Pulling a TD's log: RingLogHandler and /provision/logs in               *)
(* fugal_subnet/tee/provision.py, pulled by scripts/provision_td.py --logs *)
(* --since.  Lines are numbered within a boot; the key a boot was          *)
(* provisioned with opens its log alone.                                   *)
(***************************************************************************)
EXTENDS Integers, FiniteSets

CONSTANTS
  Capacity,   \* LOG_RING_LINES
  MaxLines,   \* bound: lines of a boot
  LastBoot    \* bound: boots

ASSUME LogAssumption == Capacity \in Nat \ {0} /\ MaxLines \in Nat /\ LastBoot \in Nat \ {0}

VARIABLES
  log,      \* the boot, its _seq and the oldest line its ring holds
  key,      \* the boots the TD and the operator hold the key of, 0 for none
  reply,    \* the answer on its way: none, refused, or [next, lines]
  since,    \* what the operator was last told to pass, of which boot, and
            \* whether that was asked for with the number of another boot
  shown,    \* lines printed: <<boot, number>>
  missed,   \* history: lines the ring had dropped when they were asked for
  again     \* history: a line was printed twice

logVars == <<log, key, reply, since, shown, missed, again>>

NoReply == [at |-> "none"]
Held == log.oldest..log.seq

LogTypeOK ==
  /\ log \in [boot : 1..LastBoot, seq : 0..MaxLines, oldest : 1..MaxLines + 1]
  /\ log.oldest <= log.seq + 1 /\ Cardinality(Held) <= Capacity
  /\ key \in [td : {0, log.boot}, operator : 0..log.boot]
  /\ reply.at \in {"none", "refused", "sealed"}
  /\ since.next \in 0..MaxLines /\ since.boot \in 0..log.boot /\ since.carried \in BOOLEAN
  /\ shown \cup missed \subseteq (1..LastBoot) \X (1..MaxLines) /\ again \in BOOLEAN

LogInit ==
  /\ log = [boot |-> 1, seq |-> 0, oldest |-> 1] /\ key = [td |-> 0, operator |-> 0]
  /\ reply = NoReply /\ since = [next |-> 0, boot |-> 0, carried |-> FALSE]
  /\ shown = {} /\ missed = {} /\ again = FALSE

-----------------------------------------------------------------------------

(* A record; the oldest one makes room. *)
Emit ==
  /\ log.seq < MaxLines
  /\ log' = [log EXCEPT !.seq = @ + 1,
                        !.oldest = IF Cardinality(Held) = Capacity THEN @ + 1 ELSE @]
  /\ UNCHANGED <<key, reply, since, shown, missed, again>>

(* The push: the operator keeps the key once it is told, at the first or after
   the TD has taken it. *)
ProvisionTD ==
  /\ key.td = 0
  /\ key' \in {[td |-> log.boot, operator |-> k] : k \in {key.operator, log.boot}}
  /\ UNCHANGED <<log, reply, since, shown, missed, again>>

(* Another boot has another key, and numbers its lines from one. *)
Reboot ==
  /\ log.boot < LastBoot
  /\ log' = [boot |-> log.boot + 1, seq |-> 0, oldest |-> 1] /\ key' = [key EXCEPT !.td = 0]
  /\ reply' = NoReply
  /\ UNCHANGED <<since, shown, missed, again>>

(* Mutant of LinesAfter: the next line is not in it. *)
LinesPast(n) == {k \in Held : k > n + 1}

(* RingLogHandler.since *)
LinesAfter(n) == {k \in Held : k > n}

(* The token is checked, and the answer sealed for the holder of the key. *)
Answer ==
  /\ reply = NoReply /\ key.operator # 0
  /\ \E n \in {0, since.next} :
       IF key.td # key.operator
       THEN reply' = [at |-> "refused"] /\ UNCHANGED missed
       ELSE /\ reply' = [at |-> "sealed", from |-> n, next |-> log.seq, lines |-> LinesAfter(n)]
            /\ missed' = missed \cup {<<log.boot, k>> : k \in n + 1..log.oldest - 1}
  /\ UNCHANGED <<log, key, since, shown, again>>

(* The answer is printed, with the number to pass next; a lost or refused one
   changes nothing. *)
ShowLines ==
  /\ reply # NoReply /\ reply' = NoReply
  /\ \/ UNCHANGED <<since, shown, again>>
     \/ /\ reply.at = "sealed"
        /\ since' = [next |-> reply.next, boot |-> key.operator,
                     carried |-> reply.from # 0 /\ (since.boot # key.operator \/ since.carried)]
        /\ LET lines == {<<key.operator, k>> : k \in reply.lines}
           IN /\ shown' = shown \cup lines
              /\ again' = (again \/ (reply.from = since.next /\ lines \cap shown # {}))
  /\ UNCHANGED <<log, key, missed>>

LogNext == Emit \/ ProvisionTD \/ Reboot \/ Answer \/ ShowLines

LogSpec == LogInit /\ [][LogNext]_logVars

-----------------------------------------------------------------------------
(* Passing the number one is told shows no line twice, whatever answers were
   lost on the way. *)
NothingTwice == ~ again

(* And it skips none: up to that number every line was shown or had left the
   ring, unless a number of an earlier boot was carried over: the lines of the
   new one up to it are there and never shown. *)
NothingSkipped ==
  since.boot # 0 /\ ~ since.carried =>
    \A k \in 1..since.next : <<since.boot, k>> \in shown \cup missed

(* An operator that follows the ring sees every line it still holds once. *)
LogSafety == LogTypeOK /\ NothingTwice /\ NothingSkipped

=============================================================================
