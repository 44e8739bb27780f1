-------------------------- MODULE MCValidatorParts --------------------------
(***************************************************************************)
(* The parts of a validator beside its epoch loop and its verify loop, and *)
(* the certificates its checks of a TPM quote climb.  No two of these      *)
(* modules share a variable: so they are checked one at a time, while the  *)
(* others rest.                                                            *)
(***************************************************************************)
EXTENDS StateFile, RevealPublisher, NodeStartup, PinnedReads, HeadArchive,
        ConsensusAudit, CertChain, TLC

VARIABLE part  \* what is checked

(* Three miners' scores, some of them equal, some unscored, and a UID, 0 or 4,
   that is paid and scored by nobody. *)
MCScores ==
  [{1, 2, 3} -> {20, 90}] \cup [{1, 2} -> {20, 70}]
    \cup {1 :> 90 @@ 2 :> 60 @@ 3 :> 20, 1 :> 20 @@ 2 :> 60 @@ 3 :> 90}

MCReports ==
  [scores : MCScores, weights : {0 :> 20 @@ 1 :> 80, 1 :> 50 @@ 4 :> 50}, hash : {"h"}]
    \cup {[scores |-> 1 :> 90, weights |-> 1 :> 100, hash |-> "g"]}

(* Those that rest are in one state. *)
MCInit ==
  /\ part \in {"state", "reveals", "startup", "reads", "archive", "audit", "chain"}
  /\ Init
  /\ PublisherInit /\ (part # "reveals" => period = 0 /\ known)
  /\ StartupInit /\ (part # "startup" => role = "miner" /\ live /\ ~finney /\ ~overrides /\ manifest = "ok")
  /\ ReadsInit /\ (part # "reads" => livePair)
  /\ ArchiveInit
  /\ AuditInit
  /\ \/ part = "chain" /\ ChainInit
     \/ part # "chain" /\ carried = <<>> /\ leaf = (CHOOSE l \in Leaf : TRUE) /\ ChainBlank

MCVars == <<part, vars, publisherVars, startupVars, readsVars, archiveVars, auditVars, chainVars>>

Alone(p, others) == part = p /\ UNCHANGED <<part, others>>

MCNext ==
  \/ /\ Alone("state", <<publisherVars, startupVars, readsVars, archiveVars, auditVars, chainVars>>)
     /\ Next
  \/ /\ Alone("reveals", <<vars, startupVars, readsVars, archiveVars, auditVars, chainVars>>)
     /\ PublisherNext
  \/ /\ Alone("startup", <<vars, publisherVars, readsVars, archiveVars, auditVars, chainVars>>)
     /\ StartupNext
  \/ /\ Alone("reads", <<vars, publisherVars, startupVars, archiveVars, auditVars, chainVars>>)
     /\ ReadsNext
  \/ /\ Alone("archive", <<vars, publisherVars, startupVars, readsVars, auditVars, chainVars>>)
     /\ ArchiveNext
  \/ /\ Alone("audit", <<vars, publisherVars, startupVars, readsVars, archiveVars, chainVars>>)
     /\ AuditNext
  \/ /\ Alone("chain", <<vars, publisherVars, startupVars, readsVars, archiveVars, auditVars>>)
     /\ ChainNext

MCSpec == MCInit /\ [][MCNext]_MCVars
=============================================================================
