------------------------------ MODULE TLSSetup ------------------------------
(***************************************************************************)
(* k-o11y-tls setup (cmd/k-o11y-tls): one Secret with the certificate of   *)
(* the collector, made by the customer or by cert-manager.  Each mode is a *)
(* list of kubectl calls over whatever earlier runs, in any mode, left in  *)
(* the cluster.                                                            *)
(*                                                                         *)
(* cert-manager works beside the tool: whenever the Secret is not as the   *)
(* Certificate says, it issues another, whoever made the first.            *)
(***************************************************************************)
CONSTANTS
    Domains,  \* values of --domain, and the domains of customers' certificates
    CAs,      \* key pairs of in-house CAs (--ca-cert, --ca-key)
    None      \* no such object

Modes == {"existing", "selfsigned", "private-ca", "letsencrypt"}

ASSUME CAsAssumption == CAs \cap Modes = {}

VARIABLES
    (* the cluster *)
    namespace,    \* exists
    certManager,  \* "absent", "starting" (the CRDs are there), "ready"
    caSecret,     \* the CA in otel-private-ca-keypair
    issuers,      \* the issuers that exist, named by their mode
    certificate,  \* spec of otel-collector-cert: mode of the issuer and domain
    ready,        \* its Ready condition, as of the current spec
    secret,       \* what the collector serves: signer, domain, ca.crt added
    granted,      \* the DNS provider lets cert-manager solve challenges
    (* the program *)
    pc,           \* next call
    args,         \* Config: mode, domain, CA, whether --ca is given
    outcome       \* what the last run reported

objects == <<namespace, certManager, caSecret, issuers, certificate, ready, secret, granted>>
vars == <<namespace, certManager, caSecret, issuers, certificate, ready, secret,
          granted, pc, args, outcome>>

Config == {a \in [mode : Modes, domain : Domains, ca : CAs \cup {None}, bundle : BOOLEAN] :
              /\ a.mode = "private-ca" <=> a.ca # None
              /\ a.bundle => a.mode = "existing"}

Certificate == [issuer : Modes \ {"existing"}, domain : Domains]
Secret      == [signer : Modes \cup CAs, domain : Domains, ca : BOOLEAN]

Outcomes    == {"done", "pending", "failed"}

ASSUME NoneAssumption == None \notin CAs \cup Certificate \cup Secret \cup Outcomes

PCs == {"idle", "namespace", "certManager", "caDelete", "caCreate", "issuer",
        "certificate", "wait", "delete", "create", "patch"}

TypeOK ==
    /\ namespace \in BOOLEAN
    /\ certManager \in {"absent", "starting", "ready"}
    /\ caSecret \in CAs \cup {None}
    /\ issuers \subseteq Modes \ {"existing"}
    /\ certificate \in Certificate \cup {None}
    /\ ready \in BOOLEAN
    /\ secret \in Secret \cup {None}
    /\ granted \in BOOLEAN
    /\ pc \in PCs
    /\ args \in Config
    /\ outcome \in Outcomes \cup {None}

(* A new cluster, or one where cert-manager serves others already.         *)
Init ==
    /\ namespace \in BOOLEAN
    /\ certManager \in {"absent", "ready"}
    /\ caSecret = None /\ issuers = {} /\ certificate = None /\ ready = FALSE
    /\ secret = None
    /\ granted \in BOOLEAN
    /\ pc = "idle"
    /\ args \in Config
    /\ outcome = None

-----------------------------------------------------------------------------
(* cert-manager, and what else happens in the cluster.                     *)

SignedBy(issuer, signer) == IF issuer = "private-ca" THEN signer \in CAs ELSE signer = issuer

(* The Secret is as the Certificate says.  Which CA signed it is not part  *)
(* of that: the issuer has the same name as before.                        *)
Matches ==
    /\ certificate # None /\ secret # None
    /\ SignedBy(certificate.issuer, secret.signer)
    /\ secret.domain = certificate.domain

CanIssue ==
    /\ certManager = "ready"
    /\ certificate # None
    /\ certificate.issuer \in issuers
    /\ certificate.issuer = "private-ca" => caSecret # None
    /\ certificate.issuer = "letsencrypt" => granted

IssueSecret ==
    /\ CanIssue
    /\ secret' = [signer |-> IF certificate.issuer = "private-ca" THEN caSecret
                             ELSE certificate.issuer,
                  domain |-> certificate.domain, ca |-> TRUE]
    /\ ready' = TRUE
    /\ UNCHANGED <<namespace, certManager, caSecret, issuers, certificate, granted,
                   pc, args, outcome>>

Issue == ~Matches /\ IssueSecret
Renew == Matches /\ IssueSecret

(* The condition follows the Secret, some time later.                      *)
Observe ==
    /\ certManager = "ready"
    /\ ready # Matches
    /\ ready' = Matches
    /\ UNCHANGED <<namespace, certManager, caSecret, issuers, certificate, secret, granted,
                   pc, args, outcome>>

PodsReady ==
    /\ certManager = "starting"
    /\ certManager' = "ready"
    /\ UNCHANGED <<namespace, caSecret, issuers, certificate, ready, secret, granted,
                   pc, args, outcome>>

(* The operator follows the guidance that letsencrypt mode prints.         *)
Grant ==
    /\ ~granted
    /\ granted' = TRUE
    /\ UNCHANGED <<namespace, certManager, caSecret, issuers, certificate, ready, secret,
                   pc, args, outcome>>

-----------------------------------------------------------------------------
(* The program.  Every call may fail without effect; a program that is     *)
(* stopped is one whose next call fails.                                   *)

Goto(p)        == pc' = p /\ UNCHANGED <<args, outcome>>
Return(result) == pc' = "idle" /\ outcome' = result /\ UNCHANGED args

(* Invalid arguments and missing files end the run before its first call.  *)
Begin(a) ==
    /\ pc = "idle"
    /\ args' = a
    /\ pc' = "namespace"
    /\ outcome' = None
    /\ UNCHANGED objects

(* Mutant: existing mode goes the way of the others.                       *)
EnsureNamespaceFor ==
    /\ pc = "namespace"
    /\ namespace' = TRUE
    /\ Goto("certManager")
    /\ UNCHANGED <<certManager, caSecret, issuers, certificate, ready, secret, granted>>

EnsureNamespace ==
    /\ pc = "namespace"
    /\ \/ /\ namespace' = TRUE
          /\ Goto(IF args.mode = "existing" THEN "delete" ELSE "certManager")
       \/ UNCHANGED namespace /\ Return("failed")
    /\ UNCHANGED <<certManager, caSecret, issuers, certificate, ready, secret, granted>>

AfterCertManager == IF args.mode = "private-ca" THEN "caDelete" ELSE "issuer"

(* The CRDs are taken for a working cert-manager: after an install that    *)
(* timed out the next run does not wait for the pods.                      *)
InstallCertManager ==
    /\ pc = "certManager"
    /\ \/ /\ certManager # "absent"
          /\ UNCHANGED certManager
          /\ Goto(AfterCertManager)
       \/ /\ certManager = "absent"
          /\ certManager' = "ready"
          /\ Goto(AfterCertManager)
       \/ /\ certManager = "absent"
          /\ certManager' \in {"absent", "starting", "ready"}
          /\ Return("failed")
       \/ /\ certManager # "absent"
          /\ UNCHANGED certManager
          /\ Return("failed")
    /\ UNCHANGED <<namespace, caSecret, issuers, certificate, ready, secret, granted>>

(* The error is not looked at.                                             *)
DeleteCASecret ==
    /\ pc = "caDelete"
    /\ caSecret' \in {caSecret, None}
    /\ Goto("caCreate")
    /\ UNCHANGED <<namespace, certManager, issuers, certificate, ready, secret, granted>>

(* Mutant: an existing CA Secret is kept.                                  *)
KeepCASecret ==
    /\ pc = "caCreate"
    /\ caSecret' = IF caSecret = None THEN args.ca ELSE caSecret
    /\ Goto("issuer")
    /\ UNCHANGED <<namespace, certManager, issuers, certificate, ready, secret, granted>>

(* create refuses a Secret that exists.                                    *)
CreateCASecret ==
    /\ pc = "caCreate"
    /\ \/ caSecret = None /\ caSecret' = args.ca /\ Goto("issuer")
       \/ UNCHANGED caSecret /\ Return("failed")
    /\ UNCHANGED <<namespace, certManager, issuers, certificate, ready, secret, granted>>

(* Without its pods, the webhook of cert-manager refuses its resources.    *)
ApplyIssuer ==
    /\ pc = "issuer"
    /\ \/ /\ certManager = "ready"
          /\ issuers' = issuers \cup {args.mode}
          /\ Goto("certificate")
       \/ UNCHANGED issuers /\ Return("failed")
    /\ UNCHANGED <<namespace, certManager, caSecret, certificate, ready, secret, granted>>

Requested == [issuer |-> args.mode, domain |-> args.domain]

(* Mutant: the error of the second apply is not returned.                  *)
ApplyCertificateAnyway ==
    /\ pc = "certificate"
    /\ \/ /\ certManager = "ready"
          /\ certificate' = Requested
          /\ ready' = (ready /\ certificate = Requested)
       \/ UNCHANGED <<certificate, ready>>
    /\ Goto("wait")
    /\ UNCHANGED <<namespace, certManager, caSecret, issuers, secret, granted>>

(* A spec that is applied again is no change, and stays Ready.             *)
ApplyCertificate ==
    /\ pc = "certificate"
    /\ \/ /\ certManager = "ready"
          /\ certificate' = Requested
          /\ ready' = (ready /\ certificate = Requested)
          /\ Goto("wait")
       \/ UNCHANGED <<certificate, ready>> /\ Return("failed")
    /\ UNCHANGED <<namespace, certManager, caSecret, issuers, secret, granted>>

(* letsencrypt takes a timeout for an issuance in progress.                *)
WaitForCertificate ==
    /\ pc = "wait"
    /\ \/ ready /\ Return("done")
       \/ Return(IF args.mode = "letsencrypt" THEN "pending" ELSE "failed")
    /\ UNCHANGED objects

(* The error is not looked at.                                             *)
DeleteSecret ==
    /\ pc = "delete"
    /\ secret' \in {secret, None}
    /\ Goto("create")
    /\ UNCHANGED <<namespace, certManager, caSecret, issuers, certificate, ready, granted>>

(* create refuses a Secret that exists, and a key that does not fit.       *)
CreateSecret ==
    /\ pc = "create"
    /\ \/ /\ secret = None
          /\ secret' = [signer |-> "existing", domain |-> args.domain, ca |-> FALSE]
          /\ IF args.bundle THEN Goto("patch") ELSE Return("done")
       \/ UNCHANGED secret /\ Return("failed")
    /\ UNCHANGED <<namespace, certManager, caSecret, issuers, certificate, ready, granted>>

(* Mutant: the error of the patch is not returned.                         *)
PatchAnyway ==
    /\ pc = "patch"
    /\ \/ secret # None /\ secret' = [secret EXCEPT !.ca = TRUE]
       \/ UNCHANGED secret
    /\ Return("done")
    /\ UNCHANGED <<namespace, certManager, caSecret, issuers, certificate, ready, granted>>

(* --ca: the file is looked for only now, the Secret is replaced already.  *)
PatchSecret ==
    /\ pc = "patch"
    /\ \/ /\ secret # None
          /\ secret' = [secret EXCEPT !.ca = TRUE]
          /\ Return("done")
       \/ UNCHANGED secret /\ Return("failed")
    /\ UNCHANGED <<namespace, certManager, caSecret, issuers, certificate, ready, granted>>

Step ==
    \/ EnsureNamespace \/ InstallCertManager
    \/ DeleteCASecret \/ CreateCASecret
    \/ ApplyIssuer \/ ApplyCertificate \/ WaitForCertificate
    \/ DeleteSecret \/ CreateSecret \/ PatchSecret

CertManager == Issue \/ Renew \/ Observe \/ PodsReady

Next ==
    \/ \E a \in Config : Begin(a)
    \/ Step
    \/ CertManager
    \/ Grant

Spec == Init /\ [][Next]_vars

(* cert-manager gets to a Certificate it can issue.  Nothing is assumed of *)
(* renewals, which are up to a year away, nor of operators.                *)
FairSpec == Spec /\ WF_vars(Issue)

-----------------------------------------------------------------------------
(* Properties.                                                             *)

Managed == args.mode # "existing"

(* A run that reports success in one of cert-manager's modes left a        *)
(* Certificate with what was asked for which cert-manager is able to issue *)
(* and to renew, from the CA that was given, whatever the runs before left *)
(* behind (SetupSelfsigned, SetupPrivateCA, SetupLetsEncrypt).             *)
SuccessMeansRenewable ==
    outcome = "done" /\ Managed =>
        /\ certificate = Requested
        /\ CanIssue
        /\ caSecret = args.ca \/ args.mode # "private-ca"

(* A run that reports success with a customer's certificate serves it,     *)
(* with its CA when one was given, in a cluster where cert-manager was not *)
(* asked for the Secret before (SetupExisting).                            *)
CustomerServed ==
    outcome = "done" /\ ~Managed /\ certificate = None =>
        secret = [signer |-> "existing", domain |-> args.domain, ca |-> args.bundle]

Served == secret # None /\ SignedBy(args.mode, secret.signer) /\ secret.domain = args.domain

(* After a run that ended well in one of cert-manager's modes the Secret   *)
(* comes to be as asked, as long as nobody runs setup again.  For          *)
(* letsencrypt that includes the soft failure, once the permissions are    *)
(* granted (letsencrypt.go: "issuance is still in progress").              *)
SuccessIsServed ==
    (outcome \in {"done", "pending"} /\ Managed /\ (args.mode = "letsencrypt" => granted))
        ~> (Served \/ pc # "idle")
=============================================================================
