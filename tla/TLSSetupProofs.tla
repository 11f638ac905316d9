--------------------------- MODULE TLSSetupProofs ---------------------------
(***************************************************************************)
(* What holds of every sequence of setups, in any modes, for all domains   *)
(* and CAs, with cert-manager issuing and renewing in between.             *)
(***************************************************************************)
EXTENDS TLSSetup, TLAPS

(* Where a run stands in its mode.                                         *)
InRun ==
    /\ pc # "idle" => outcome = None
    /\ pc \in {"delete", "create", "patch"} => args.mode = "existing"
    /\ pc \in {"caDelete", "caCreate"} => args.mode = "private-ca"
    /\ pc \in {"certManager", "issuer", "certificate", "wait"} => args.mode # "existing"
    /\ outcome = "pending" => args.mode # "existing"

(* Issuers and the Certificate exist only where cert-manager runs, and the *)
(* Certificate after its issuer.                                           *)
IssuerFirst ==
    /\ issuers # {} => certManager = "ready"
    /\ pc = "certificate" => args.mode \in issuers
    /\ certificate # None => certificate.issuer \in issuers

(* A challenge was solved only with the permissions.                       *)
GrantedFirst == secret # None /\ secret.signer = "letsencrypt" => granted

ReadyIssued ==
    ready => /\ certificate # None
             /\ certificate.issuer = "letsencrypt" => granted

CAGiven ==
    pc \in {"issuer", "certificate", "wait"} /\ args.mode = "private-ca" => caSecret = args.ca

SpecApplied == pc = "wait" => certificate = Requested

CustomerMade ==
    pc = "patch" /\ certificate = None =>
        /\ secret = [signer |-> "existing", domain |-> args.domain, ca |-> FALSE]
        /\ args.bundle

Facts ==
    /\ InRun /\ IssuerFirst /\ GrantedFirst /\ ReadyIssued
    /\ CAGiven /\ SpecApplied /\ CustomerMade

Promises == SuccessMeansRenewable /\ CustomerServed

IInv == TypeOK /\ Facts /\ Promises

-----------------------------------------------------------------------------
USE CAsAssumption, NoneAssumption DEF Modes, Outcomes

(* An object of the cluster is not the absence of one.                     *)
LEMMA ObjectsExist ==
    ASSUME TypeOK
    PROVE  /\ args.mode # "existing" => Requested \in Certificate /\ Requested # None
           /\ args.mode = "private-ca" => args.ca \in CAs /\ args.ca # None
           /\ args.domain \in Domains
           /\ args.mode \in Modes
           /\ args.bundle \in BOOLEAN
           /\ args.bundle => args.mode = "existing"
           /\ certificate # None => certificate \in Certificate
           /\ secret # None => secret \in Secret
<1>1. args \in Config
    BY DEF TypeOK
<1>2. args.mode # "existing" => Requested \in Certificate
    BY <1>1 DEF Config, Requested, Certificate
<1>3. QED
    BY <1>1, <1>2 DEF TypeOK, Config

(* The initial states, and below one lemma for each action.                *)
LEMMA InitInv == Init => IInv
<1> SUFFICES ASSUME Init PROVE IInv
    OBVIOUS
<1>1. TypeOK
    BY DEF Init, TypeOK, PCs
<1>2. Facts
    BY DEF Init, Facts, InRun, IssuerFirst, GrantedFirst, ReadyIssued, CAGiven,
           SpecApplied, CustomerMade
<1>3. Promises
    BY DEF Init, Promises, SuccessMeansRenewable, CustomerServed
<1>4. QED
    BY <1>1, <1>2, <1>3 DEF IInv

LEMMA EnsureNamespaceStep == IInv /\ EnsureNamespace => IInv'
<1> SUFFICES ASSUME IInv, EnsureNamespace PROVE IInv'
    OBVIOUS
<1>0. TypeOK /\ Facts /\ Promises
    BY DEF IInv
<1>1. TypeOK'
    BY <1>0, ObjectsExist DEF EnsureNamespace, Goto, Return, TypeOK, PCs
<1>2. InRun' /\ IssuerFirst'
    BY <1>0, ObjectsExist DEF EnsureNamespace, Goto, Return, TypeOK, Facts,
        InRun, IssuerFirst
<1>3. GrantedFirst' /\ ReadyIssued'
    BY <1>0, ObjectsExist DEF EnsureNamespace, Goto, Return, TypeOK, Facts,
        GrantedFirst, ReadyIssued, IssuerFirst
<1>4. CAGiven' /\ SpecApplied' /\ CustomerMade'
    BY <1>0, ObjectsExist DEF EnsureNamespace, Goto, Return, TypeOK, Facts,
        InRun, CAGiven, SpecApplied, CustomerMade, Requested
<1>5. SuccessMeansRenewable' /\ CustomerServed'
    BY <1>0, ObjectsExist DEF EnsureNamespace, Goto, Return, TypeOK, Facts,
        InRun, Promises, SuccessMeansRenewable, CustomerServed, Managed
<1>6. QED
    BY <1>1, <1>2, <1>3, <1>4, <1>5 DEF IInv, Facts, Promises

LEMMA InstallCertManagerStep == IInv /\ InstallCertManager => IInv'
<1> SUFFICES ASSUME IInv, InstallCertManager PROVE IInv'
    OBVIOUS
<1>0. TypeOK /\ Facts /\ Promises
    BY DEF IInv
<1>1. TypeOK'
    BY <1>0, ObjectsExist DEF InstallCertManager, Goto, Return,
        AfterCertManager, TypeOK, PCs
<1>2. InRun' /\ IssuerFirst'
    BY <1>0, ObjectsExist DEF InstallCertManager, Goto, Return,
        AfterCertManager, TypeOK, Facts, InRun, IssuerFirst
<1>3. GrantedFirst' /\ ReadyIssued'
    BY <1>0, ObjectsExist DEF InstallCertManager, Goto, Return,
        AfterCertManager, TypeOK, Facts, GrantedFirst, ReadyIssued,
        IssuerFirst
<1>4. CAGiven' /\ SpecApplied' /\ CustomerMade'
    BY <1>0, ObjectsExist DEF InstallCertManager, Goto, Return,
        AfterCertManager, TypeOK, Facts, InRun, CAGiven, SpecApplied,
        CustomerMade, Requested
<1>5. SuccessMeansRenewable' /\ CustomerServed'
    BY <1>0, ObjectsExist DEF InstallCertManager, Goto, Return,
        AfterCertManager, TypeOK, Facts, InRun, Promises,
        SuccessMeansRenewable, CustomerServed, Managed
<1>6. QED
    BY <1>1, <1>2, <1>3, <1>4, <1>5 DEF IInv, Facts, Promises

LEMMA DeleteCASecretStep == IInv /\ DeleteCASecret => IInv'
<1> SUFFICES ASSUME IInv, DeleteCASecret PROVE IInv'
    OBVIOUS
<1>0. TypeOK /\ Facts /\ Promises
    BY DEF IInv
<1>1. TypeOK'
    BY <1>0, ObjectsExist DEF DeleteCASecret, Goto, TypeOK, PCs
<1>2. InRun' /\ IssuerFirst'
    BY <1>0, ObjectsExist DEF DeleteCASecret, Goto, TypeOK, Facts, InRun,
        IssuerFirst
<1>3. GrantedFirst' /\ ReadyIssued'
    BY <1>0, ObjectsExist DEF DeleteCASecret, Goto, TypeOK, Facts,
        GrantedFirst, ReadyIssued, IssuerFirst
<1>4. CAGiven' /\ SpecApplied' /\ CustomerMade'
    BY <1>0, ObjectsExist DEF DeleteCASecret, Goto, TypeOK, Facts, InRun,
        CAGiven, SpecApplied, CustomerMade, Requested
<1>5. SuccessMeansRenewable' /\ CustomerServed'
    BY <1>0, ObjectsExist DEF DeleteCASecret, Goto, TypeOK, Facts, InRun,
        Promises, SuccessMeansRenewable, CustomerServed, Managed
<1>6. QED
    BY <1>1, <1>2, <1>3, <1>4, <1>5 DEF IInv, Facts, Promises

LEMMA CreateCASecretStep == IInv /\ CreateCASecret => IInv'
<1> SUFFICES ASSUME IInv, CreateCASecret PROVE IInv'
    OBVIOUS
<1>0. TypeOK /\ Facts /\ Promises
    BY DEF IInv
<1>1. TypeOK'
    BY <1>0, ObjectsExist DEF CreateCASecret, Goto, Return, TypeOK, PCs,
        Facts, InRun
<1>2. InRun' /\ IssuerFirst'
    BY <1>0, ObjectsExist DEF CreateCASecret, Goto, Return, TypeOK, Facts,
        InRun, IssuerFirst
<1>3. GrantedFirst' /\ ReadyIssued'
    BY <1>0, ObjectsExist DEF CreateCASecret, Goto, Return, TypeOK, Facts,
        GrantedFirst, ReadyIssued, IssuerFirst
<1>4. CAGiven' /\ SpecApplied' /\ CustomerMade'
    BY <1>0, ObjectsExist DEF CreateCASecret, Goto, Return, TypeOK, Facts,
        InRun, CAGiven, SpecApplied, CustomerMade, Requested
<1>5. SuccessMeansRenewable' /\ CustomerServed'
    BY <1>0, ObjectsExist DEF CreateCASecret, Goto, Return, TypeOK, Facts,
        InRun, Promises, SuccessMeansRenewable, CustomerServed, Managed
<1>6. QED
    BY <1>1, <1>2, <1>3, <1>4, <1>5 DEF IInv, Facts, Promises

LEMMA ApplyIssuerStep == IInv /\ ApplyIssuer => IInv'
<1> SUFFICES ASSUME IInv, ApplyIssuer PROVE IInv'
    OBVIOUS
<1>0. TypeOK /\ Facts /\ Promises
    BY DEF IInv
<1>1. TypeOK'
    BY <1>0, ObjectsExist DEF ApplyIssuer, Goto, Return, TypeOK, PCs, Facts,
        InRun
<1>2. InRun' /\ IssuerFirst'
    BY <1>0, ObjectsExist DEF ApplyIssuer, Goto, Return, TypeOK, Facts,
        InRun, IssuerFirst
<1>3. GrantedFirst' /\ ReadyIssued'
    BY <1>0, ObjectsExist DEF ApplyIssuer, Goto, Return, TypeOK, Facts,
        GrantedFirst, ReadyIssued, IssuerFirst
<1>4. CAGiven' /\ SpecApplied' /\ CustomerMade'
    BY <1>0, ObjectsExist DEF ApplyIssuer, Goto, Return, TypeOK, Facts,
        InRun, CAGiven, SpecApplied, CustomerMade, Requested
<1>5. SuccessMeansRenewable' /\ CustomerServed'
    BY <1>0, ObjectsExist DEF ApplyIssuer, Goto, Return, TypeOK, Facts,
        InRun, Promises, SuccessMeansRenewable, CustomerServed, Managed
<1>6. QED
    BY <1>1, <1>2, <1>3, <1>4, <1>5 DEF IInv, Facts, Promises

LEMMA ApplyCertificateStep == IInv /\ ApplyCertificate => IInv'
<1> SUFFICES ASSUME IInv, ApplyCertificate PROVE IInv'
    OBVIOUS
<1>0. TypeOK /\ Facts /\ Promises
    BY DEF IInv
<1>1. TypeOK'
    BY <1>0, ObjectsExist DEF ApplyCertificate, Goto, Return, TypeOK, PCs,
        Facts, InRun
<1>2. InRun' /\ IssuerFirst'
    BY <1>0, ObjectsExist DEF ApplyCertificate, Goto, Return, TypeOK, Facts,
        InRun, IssuerFirst, Requested
<1>3. GrantedFirst' /\ ReadyIssued'
    BY <1>0, ObjectsExist DEF ApplyCertificate, Goto, Return, TypeOK, Facts,
        GrantedFirst, ReadyIssued, IssuerFirst, Requested
<1>4. CAGiven' /\ SpecApplied' /\ CustomerMade'
    BY <1>0, ObjectsExist DEF ApplyCertificate, Goto, Return, TypeOK, Facts,
        InRun, CAGiven, SpecApplied, CustomerMade, Requested
<1>5. SuccessMeansRenewable' /\ CustomerServed'
    BY <1>0, ObjectsExist DEF ApplyCertificate, Goto, Return, TypeOK, Facts,
        InRun, Promises, SuccessMeansRenewable, CustomerServed, Managed
<1>6. QED
    BY <1>1, <1>2, <1>3, <1>4, <1>5 DEF IInv, Facts, Promises

LEMMA WaitForCertificateStep == IInv /\ WaitForCertificate => IInv'
<1> SUFFICES ASSUME IInv, WaitForCertificate PROVE IInv'
    OBVIOUS
<1>0. TypeOK /\ Facts /\ Promises
    BY DEF IInv
<1>1. TypeOK'
    BY <1>0, ObjectsExist DEF WaitForCertificate, Return, objects, TypeOK,
        PCs
<1>2. InRun' /\ IssuerFirst'
    BY <1>0, ObjectsExist DEF WaitForCertificate, Return, objects, TypeOK,
        Facts, InRun, IssuerFirst
<1>3. GrantedFirst' /\ ReadyIssued'
    BY <1>0, ObjectsExist DEF WaitForCertificate, Return, objects, TypeOK,
        Facts, GrantedFirst, ReadyIssued, IssuerFirst
<1>4. CAGiven' /\ SpecApplied' /\ CustomerMade'
    BY <1>0, ObjectsExist DEF WaitForCertificate, Return, objects, TypeOK,
        Facts, InRun, CAGiven, SpecApplied, CustomerMade, Requested
<1>5. SuccessMeansRenewable' /\ CustomerServed'
    BY <1>0, ObjectsExist DEF WaitForCertificate, Return, objects, TypeOK,
        Facts, InRun, Promises, SuccessMeansRenewable, CustomerServed,
        Managed, IssuerFirst, ReadyIssued, CAGiven, SpecApplied, CanIssue,
        Requested
<1>6. QED
    BY <1>1, <1>2, <1>3, <1>4, <1>5 DEF IInv, Facts, Promises

LEMMA DeleteSecretStep == IInv /\ DeleteSecret => IInv'
<1> SUFFICES ASSUME IInv, DeleteSecret PROVE IInv'
    OBVIOUS
<1>0. TypeOK /\ Facts /\ Promises
    BY DEF IInv
<1>1. TypeOK'
    BY <1>0, ObjectsExist DEF DeleteSecret, Goto, TypeOK, PCs
<1>2. InRun' /\ IssuerFirst'
    BY <1>0, ObjectsExist DEF DeleteSecret, Goto, TypeOK, Facts, InRun,
        IssuerFirst
<1>3. GrantedFirst' /\ ReadyIssued'
    BY <1>0, ObjectsExist DEF DeleteSecret, Goto, TypeOK, Facts,
        GrantedFirst, ReadyIssued, IssuerFirst
<1>4. CAGiven' /\ SpecApplied' /\ CustomerMade'
    BY <1>0, ObjectsExist DEF DeleteSecret, Goto, TypeOK, Facts, InRun,
        CAGiven, SpecApplied, CustomerMade, Requested
<1>5. SuccessMeansRenewable' /\ CustomerServed'
    BY <1>0, ObjectsExist DEF DeleteSecret, Goto, TypeOK, Facts, InRun,
        Promises, SuccessMeansRenewable, CustomerServed, Managed
<1>6. QED
    BY <1>1, <1>2, <1>3, <1>4, <1>5 DEF IInv, Facts, Promises

LEMMA CreateSecretStep == IInv /\ CreateSecret => IInv'
<1> SUFFICES ASSUME IInv, CreateSecret PROVE IInv'
    OBVIOUS
<1>0. TypeOK /\ Facts /\ Promises
    BY DEF IInv
<1>1. TypeOK'
    <2>1. [signer |-> "existing", domain |-> args.domain, ca |-> FALSE] \in Secret
        BY <1>0, ObjectsExist DEF Secret
    <2>2. secret' \in Secret \cup {None}
        BY <1>0, <2>1 DEF CreateSecret, TypeOK
    <2>3. QED
        BY <1>0, <2>2 DEF CreateSecret, Goto, Return, TypeOK, PCs
<1>2. InRun' /\ IssuerFirst'
    BY <1>0, ObjectsExist DEF CreateSecret, Goto, Return, TypeOK, Facts,
        InRun, IssuerFirst
<1>3. GrantedFirst' /\ ReadyIssued'
    BY <1>0, ObjectsExist DEF CreateSecret, Goto, Return, TypeOK, Facts,
        GrantedFirst, ReadyIssued, IssuerFirst
<1>4. CAGiven' /\ SpecApplied' /\ CustomerMade'
    BY <1>0, ObjectsExist DEF CreateSecret, Goto, Return, TypeOK, Facts,
        InRun, CAGiven, SpecApplied, CustomerMade, Requested
<1>5. SuccessMeansRenewable' /\ CustomerServed'
    BY <1>0, ObjectsExist DEF CreateSecret, Goto, Return, TypeOK, Facts,
        InRun, Promises, SuccessMeansRenewable, CustomerServed, Managed
<1>6. QED
    BY <1>1, <1>2, <1>3, <1>4, <1>5 DEF IInv, Facts, Promises

LEMMA PatchSecretStep == IInv /\ PatchSecret => IInv'
<1> SUFFICES ASSUME IInv, PatchSecret PROVE IInv'
    OBVIOUS
<1>0. TypeOK /\ Facts /\ Promises
    BY DEF IInv
<1>1. TypeOK'
    BY <1>0, ObjectsExist DEF PatchSecret, Goto, Return, TypeOK, PCs, Secret
<1>2. InRun' /\ IssuerFirst'
    BY <1>0, ObjectsExist DEF PatchSecret, Goto, Return, TypeOK, Facts,
        InRun, IssuerFirst
<1>3. GrantedFirst' /\ ReadyIssued'
    BY <1>0, ObjectsExist DEF PatchSecret, Goto, Return, TypeOK, Facts,
        GrantedFirst, ReadyIssued, IssuerFirst, Secret
<1>4. CAGiven' /\ SpecApplied' /\ CustomerMade'
    BY <1>0, ObjectsExist DEF PatchSecret, Goto, Return, TypeOK, Facts,
        InRun, CAGiven, SpecApplied, CustomerMade, Requested
<1>5. SuccessMeansRenewable' /\ CustomerServed'
    <2>1. ~Managed /\ args' = args
        BY <1>0 DEF PatchSecret, Goto, Return, Facts, InRun, Managed
    <2>2. SuccessMeansRenewable'
        BY <2>1 DEF SuccessMeansRenewable, Managed
    <2>3. ASSUME certificate' = None, outcome' = "done"
          PROVE  secret' = [signer |-> "existing", domain |-> args.domain, ca |-> args.bundle]
        <3>1. secret = [signer |-> "existing", domain |-> args.domain, ca |-> FALSE]
            BY <1>0, <2>3 DEF PatchSecret, Facts, CustomerMade
        <3>2. args.bundle = TRUE
            BY <1>0, <2>3, ObjectsExist DEF PatchSecret, Facts, CustomerMade
        <3>3. secret' = [secret EXCEPT !.ca = TRUE]
            BY <2>3 DEF PatchSecret, Return
        <3>4. QED
            BY <3>1, <3>2, <3>3
    <2>4. QED
        BY <2>1, <2>2, <2>3 DEF CustomerServed
<1>6. QED
    BY <1>1, <1>2, <1>3, <1>4, <1>5 DEF IInv, Facts, Promises

LEMMA IssueStep == IInv /\ Issue => IInv'
<1> SUFFICES ASSUME IInv, Issue PROVE IInv'
    OBVIOUS
<1>0. TypeOK /\ Facts /\ Promises
    BY DEF IInv
<1>1. TypeOK'
    BY <1>0, ObjectsExist DEF Issue, IssueSecret, CanIssue, TypeOK, PCs,
        Secret, Certificate
<1>2. InRun' /\ IssuerFirst'
    BY <1>0, ObjectsExist DEF Issue, IssueSecret, CanIssue, TypeOK, Facts,
        InRun, IssuerFirst
<1>3. GrantedFirst' /\ ReadyIssued'
    BY <1>0, ObjectsExist DEF Issue, IssueSecret, CanIssue, TypeOK, Facts,
        GrantedFirst, ReadyIssued, IssuerFirst, Certificate
<1>4. CAGiven' /\ SpecApplied' /\ CustomerMade'
    BY <1>0, ObjectsExist DEF Issue, IssueSecret, CanIssue, TypeOK, Facts,
        InRun, CAGiven, SpecApplied, CustomerMade, Requested
<1>5. SuccessMeansRenewable' /\ CustomerServed'
    BY <1>0, ObjectsExist DEF Issue, IssueSecret, CanIssue, TypeOK, Facts,
        InRun, Promises, SuccessMeansRenewable, CustomerServed, Managed,
        Requested
<1>6. QED
    BY <1>1, <1>2, <1>3, <1>4, <1>5 DEF IInv, Facts, Promises

LEMMA RenewStep == IInv /\ Renew => IInv'
<1> SUFFICES ASSUME IInv, Renew PROVE IInv'
    OBVIOUS
<1>0. TypeOK /\ Facts /\ Promises
    BY DEF IInv
<1>1. TypeOK'
    BY <1>0, ObjectsExist DEF Renew, IssueSecret, CanIssue, TypeOK, PCs,
        Secret, Certificate
<1>2. InRun' /\ IssuerFirst'
    BY <1>0, ObjectsExist DEF Renew, IssueSecret, CanIssue, TypeOK, Facts,
        InRun, IssuerFirst
<1>3. GrantedFirst' /\ ReadyIssued'
    BY <1>0, ObjectsExist DEF Renew, IssueSecret, CanIssue, TypeOK, Facts,
        GrantedFirst, ReadyIssued, IssuerFirst, Certificate
<1>4. CAGiven' /\ SpecApplied' /\ CustomerMade'
    BY <1>0, ObjectsExist DEF Renew, IssueSecret, CanIssue, TypeOK, Facts,
        InRun, CAGiven, SpecApplied, CustomerMade, Requested
<1>5. SuccessMeansRenewable' /\ CustomerServed'
    BY <1>0, ObjectsExist DEF Renew, IssueSecret, CanIssue, TypeOK, Facts,
        InRun, Promises, SuccessMeansRenewable, CustomerServed, Managed,
        Requested
<1>6. QED
    BY <1>1, <1>2, <1>3, <1>4, <1>5 DEF IInv, Facts, Promises

LEMMA ObserveStep == IInv /\ Observe => IInv'
<1> SUFFICES ASSUME IInv, Observe PROVE IInv'
    OBVIOUS
<1>0. TypeOK /\ Facts /\ Promises
    BY DEF IInv
<1>1. TypeOK'
    BY <1>0, ObjectsExist DEF Observe, Matches, SignedBy, TypeOK, PCs
<1>2. InRun' /\ IssuerFirst'
    BY <1>0, ObjectsExist DEF Observe, Matches, SignedBy, TypeOK, Facts,
        InRun, IssuerFirst
<1>3. GrantedFirst' /\ ReadyIssued'
    BY <1>0, ObjectsExist DEF Observe, Matches, SignedBy, TypeOK, Facts,
        GrantedFirst, ReadyIssued, IssuerFirst
<1>4. CAGiven' /\ SpecApplied' /\ CustomerMade'
    BY <1>0, ObjectsExist DEF Observe, Matches, SignedBy, TypeOK, Facts,
        InRun, CAGiven, SpecApplied, CustomerMade, Requested
<1>5. SuccessMeansRenewable' /\ CustomerServed'
    BY <1>0, ObjectsExist DEF Observe, Matches, SignedBy, TypeOK, Facts,
        InRun, Promises, SuccessMeansRenewable, CustomerServed, Managed,
        CanIssue, Requested
<1>6. QED
    BY <1>1, <1>2, <1>3, <1>4, <1>5 DEF IInv, Facts, Promises

LEMMA PodsReadyStep == IInv /\ PodsReady => IInv'
<1> SUFFICES ASSUME IInv, PodsReady PROVE IInv'
    OBVIOUS
<1>0. TypeOK /\ Facts /\ Promises
    BY DEF IInv
<1>1. TypeOK'
    BY <1>0, ObjectsExist DEF PodsReady, TypeOK, PCs
<1>2. InRun' /\ IssuerFirst'
    BY <1>0, ObjectsExist DEF PodsReady, TypeOK, Facts, InRun, IssuerFirst
<1>3. GrantedFirst' /\ ReadyIssued'
    BY <1>0, ObjectsExist DEF PodsReady, TypeOK, Facts, GrantedFirst,
        ReadyIssued, IssuerFirst
<1>4. CAGiven' /\ SpecApplied' /\ CustomerMade'
    BY <1>0, ObjectsExist DEF PodsReady, TypeOK, Facts, InRun, CAGiven,
        SpecApplied, CustomerMade, Requested
<1>5. SuccessMeansRenewable' /\ CustomerServed'
    BY <1>0, ObjectsExist DEF PodsReady, TypeOK, Facts, InRun, Promises,
        SuccessMeansRenewable, CustomerServed, Managed, CanIssue, Requested
<1>6. QED
    BY <1>1, <1>2, <1>3, <1>4, <1>5 DEF IInv, Facts, Promises

LEMMA GrantStep == IInv /\ Grant => IInv'
<1> SUFFICES ASSUME IInv, Grant PROVE IInv'
    OBVIOUS
<1>0. TypeOK /\ Facts /\ Promises
    BY DEF IInv
<1>1. TypeOK'
    BY <1>0, ObjectsExist DEF Grant, TypeOK, PCs
<1>2. InRun' /\ IssuerFirst'
    BY <1>0, ObjectsExist DEF Grant, TypeOK, Facts, InRun, IssuerFirst
<1>3. GrantedFirst' /\ ReadyIssued'
    BY <1>0, ObjectsExist DEF Grant, TypeOK, Facts, GrantedFirst,
        ReadyIssued, IssuerFirst
<1>4. CAGiven' /\ SpecApplied' /\ CustomerMade'
    BY <1>0, ObjectsExist DEF Grant, TypeOK, Facts, InRun, CAGiven,
        SpecApplied, CustomerMade, Requested
<1>5. SuccessMeansRenewable' /\ CustomerServed'
    BY <1>0, ObjectsExist DEF Grant, TypeOK, Facts, InRun, Promises,
        SuccessMeansRenewable, CustomerServed, Managed, CanIssue, Requested
<1>6. QED
    BY <1>1, <1>2, <1>3, <1>4, <1>5 DEF IInv, Facts, Promises

LEMMA BeginStep ==
    ASSUME IInv, NEW a \in Config, Begin(a) PROVE IInv'
<1>0. TypeOK /\ Facts /\ Promises
    BY DEF IInv
<1>1. TypeOK'
    BY <1>0, ObjectsExist DEF Begin, objects, TypeOK, PCs
<1>2. InRun' /\ IssuerFirst'
    BY <1>0, ObjectsExist DEF Begin, objects, TypeOK, Facts, InRun,
        IssuerFirst
<1>3. GrantedFirst' /\ ReadyIssued'
    BY <1>0, ObjectsExist DEF Begin, objects, TypeOK, Facts, GrantedFirst,
        ReadyIssued, IssuerFirst
<1>4. CAGiven' /\ SpecApplied' /\ CustomerMade'
    BY <1>0, ObjectsExist DEF Begin, objects, TypeOK, Facts, InRun, CAGiven,
        SpecApplied, CustomerMade, Requested
<1>5. SuccessMeansRenewable' /\ CustomerServed'
    BY <1>0, ObjectsExist DEF Begin, objects, TypeOK, Facts, InRun, Promises,
        SuccessMeansRenewable, CustomerServed, Managed
<1>6. QED
    BY <1>1, <1>2, <1>3, <1>4, <1>5 DEF IInv, Facts, Promises

LEMMA StutterStep == IInv /\ UNCHANGED vars => IInv'
<1> SUFFICES ASSUME IInv, UNCHANGED vars PROVE IInv'
    OBVIOUS
<1>1. TypeOK'
    BY DEF IInv, TypeOK, vars
<1>2. Facts'
    BY DEF IInv, vars, Facts, InRun, IssuerFirst, GrantedFirst, ReadyIssued, CAGiven,
           SpecApplied, CustomerMade, Requested
<1>3. Promises'
    BY DEF IInv, vars, Promises, SuccessMeansRenewable, CustomerServed, Managed, CanIssue,
           Requested
<1>4. QED
    BY <1>1, <1>2, <1>3 DEF IInv

(* The invariant holds throughout every sequence of runs of setup.go's     *)
(* command.                                                                *)
THEOREM Invariance == Spec => []IInv
<1>1. IInv /\ [Next]_vars => IInv'
    BY EnsureNamespaceStep, InstallCertManagerStep, DeleteCASecretStep, CreateCASecretStep,
       ApplyIssuerStep, ApplyCertificateStep, WaitForCertificateStep, DeleteSecretStep,
       CreateSecretStep, PatchSecretStep, IssueStep, RenewStep, ObserveStep, PodsReadyStep,
       GrantStep, BeginStep, StutterStep DEF Next, Step, CertManager
<1>2. QED
    BY InitInv, <1>1, PTL DEF Spec

(* Every variable keeps its type.                                          *)
THEOREM TypeCorrectness == Spec => []TypeOK
<1>1. IInv => TypeOK
    BY DEF IInv
<1>2. QED
    BY Invariance, <1>1, PTL

(* After a success in selfsigned, private-ca or letsencrypt mode           *)
(* cert-manager can issue and renew what was asked for, from the CA that   *)
(* was given, whatever earlier runs left and wherever they failed.         *)
THEOREM HonestSuccess == Spec => []SuccessMeansRenewable
<1>1. IInv => SuccessMeansRenewable
    BY DEF IInv, Promises
<1>2. QED
    BY Invariance, <1>1, PTL

(* After a success of SetupExisting the customer's certificate is served,  *)
(* with the CA that was given, where cert-manager has no Certificate.      *)
THEOREM HonestExisting == Spec => []CustomerServed
<1>1. IInv => CustomerServed
    BY DEF IInv, Promises
<1>2. QED
    BY Invariance, <1>1, PTL
-----------------------------------------------------------------------------
(* SuccessIsServed, up to its fairness: after a run that ended well        *)
(* cert-manager can issue what was asked for until it has, and what it     *)
(* issues then is what was asked for and stays.                            *)
Promised ==
    /\ outcome \in {"done", "pending"} /\ Managed
    /\ args.mode = "letsencrypt" => granted

PendingApplied ==
    outcome = "pending" => args.mode = "letsencrypt" /\ certificate = Requested

(* What cert-manager is to do does not change before the next run, what it *)
(* issues is served, and nothing it does then is undone.                   *)
PromiseStays == [][Promised => Promised' \/ pc' # "idle"]_vars
IssueServes  == [][Promised /\ Issue => Served']_vars
ServedStays  == [][Promised /\ Served => Served' \/ pc' # "idle"]_vars

(* The soft failure of letsencrypt comes after both applies.               *)
LEMMA PendingAppliedStep == IInv /\ PendingApplied /\ [Next]_vars => PendingApplied'
<1> SUFFICES ASSUME IInv, PendingApplied, [Next]_vars, outcome' = "pending"
             PROVE  args'.mode = "letsencrypt" /\ certificate' = Requested'
    BY DEF PendingApplied
<1>0. InRun /\ SpecApplied
    BY DEF IInv, Facts
<1>1. CASE WaitForCertificate
    BY <1>0, <1>1 DEF WaitForCertificate, Return, objects, SpecApplied, Requested,
       PendingApplied
<1>2. CASE \E a \in Config : Begin(a)
    BY <1>2, NoneAssumption DEF Begin
<1>3. CASE UNCHANGED <<args, certificate, outcome>>
    BY <1>3 DEF PendingApplied, Requested
<1>4. CASE Step /\ ~WaitForCertificate
    <2>1. outcome # "pending"
        BY <1>0, <1>4, NoneAssumption
           DEF Step, InRun, EnsureNamespace, InstallCertManager, DeleteCASecret,
               CreateCASecret, ApplyIssuer, ApplyCertificate, DeleteSecret, CreateSecret,
               PatchSecret
    <2>2. outcome' # "pending"
        BY <1>4, <2>1
           DEF Step, EnsureNamespace, InstallCertManager, DeleteCASecret,
               CreateCASecret, ApplyIssuer, ApplyCertificate, DeleteSecret, CreateSecret,
               PatchSecret, Goto, Return
    <2>. QED
        BY <2>2
<1>5. CASE CertManager \/ Grant
    BY <1>3, <1>5
       DEF CertManager, Issue, Renew, IssueSecret, Observe, PodsReady, Grant
<1>. QED
    BY <1>1, <1>2, <1>3, <1>4, <1>5 DEF Next, vars

(* A Secret is served as asked if and only if cert-manager would not issue *)
(* another.                                                                *)
LEMMA PromisedCanIssue ==
    ASSUME IInv, PendingApplied, Promised
    PROVE  /\ pc = "idle"
           /\ certificate = Requested /\ CanIssue
           /\ Matches <=> Served
<1>0. TypeOK /\ InRun /\ IssuerFirst /\ SuccessMeansRenewable
    BY DEF IInv, Facts, Promises
<1>1. pc = "idle"
    BY <1>0, NoneAssumption DEF Promised, InRun
<1>2. Requested # None
    BY <1>0, ObjectsExist DEF Promised, Managed
<1>3. certificate = Requested /\ CanIssue
    <2>1. CASE outcome = "done"
        BY <1>0, <2>1 DEF Promised, SuccessMeansRenewable
    <2>2. CASE outcome = "pending"
        <3>1. certificate = Requested /\ args.mode = "letsencrypt" /\ granted
            BY <2>2 DEF PendingApplied, Promised
        <3>. QED
            BY <1>0, <1>2, <3>1 DEF IssuerFirst, CanIssue, Requested
    <2>. QED
        BY <2>1, <2>2 DEF Promised
<1>. QED
    BY <1>1, <1>2, <1>3 DEF Matches, Served, Requested

(* The Secret is replaced by runs and by cert-manager only.                *)
LEMMA PromisedStep ==
    ASSUME IInv, PendingApplied, Promised, [Next]_vars, pc' = "idle"
    PROVE  /\ Promised'
           /\ Issue => Served'
           /\ Served => Served'
<1>0. /\ pc = "idle" /\ certificate = Requested /\ CanIssue
      /\ TypeOK
    BY PromisedCanIssue DEF IInv
<1>1. UNCHANGED <<args, outcome>> /\ (granted => granted')
    BY <1>0 DEF Next, Begin, Step, EnsureNamespace, InstallCertManager, DeleteCASecret,
       CreateCASecret, ApplyIssuer, ApplyCertificate, WaitForCertificate, DeleteSecret,
       CreateSecret, PatchSecret, CertManager, Issue, Renew, IssueSecret, Observe,
       PodsReady, Grant, vars
<1>2. Promised'
    BY <1>1 DEF Promised, Managed
<1>3. ASSUME Issue \/ Renew
      PROVE  Served'
    <2>1. secret' = [signer |-> IF args.mode = "private-ca" THEN caSecret ELSE args.mode,
                     domain |-> args.domain, ca |-> TRUE]
        BY <1>0, <1>3 DEF Issue, Renew, IssueSecret, Requested
    <2>2. secret' \in Secret
        <3>1. args.mode = "private-ca" => caSecret \in CAs
            BY <1>0 DEF CanIssue, TypeOK, Requested
        <3>. QED
            BY <1>0, <2>1, <3>1, ObjectsExist DEF Secret
    <2>3. secret' # None
        BY <2>2, NoneAssumption
    <2>4. SignedBy(args.mode, secret'.signer)
        BY <1>0, <2>1 DEF SignedBy, CanIssue, TypeOK, Requested
    <2>. QED
        BY <1>1, <2>1, <2>3, <2>4 DEF Served, SignedBy
<1>4. ASSUME UNCHANGED secret, Served
      PROVE  Served'
    BY <1>1, <1>4 DEF Served, SignedBy
<1>5. UNCHANGED secret \/ Issue \/ Renew
    BY <1>0 DEF Next, Begin, Step, EnsureNamespace, InstallCertManager, DeleteCASecret,
       CreateCASecret, ApplyIssuer, ApplyCertificate, WaitForCertificate, DeleteSecret,
       CreateSecret, PatchSecret, CertManager, Observe, PodsReady, Grant, objects, vars
<1>. QED
    BY <1>2, <1>3, <1>4, <1>5

(* After a success, or a timeout in letsencrypt mode once the permissions  *)
(* are granted (letsencrypt.go: "issuance is still in progress"), issuing  *)
(* is possible whenever the Secret is not as asked, stays possible, makes  *)
(* it as asked, and no renewal undoes that, until setup is run again.      *)
THEOREM IssuanceStaysPossible ==
    Spec => /\ [](Promised => CanIssue /\ (Served \/ ~Matches))
            /\ PromiseStays /\ IssueServes /\ ServedStays
<1>1. Init => PendingApplied
    BY NoneAssumption DEF Init, PendingApplied
<1>2. Spec => []PendingApplied
    BY <1>1, PendingAppliedStep, Invariance, PTL DEF Spec
<1>3. IInv /\ PendingApplied => (Promised => CanIssue /\ (Served \/ ~Matches))
    BY PromisedCanIssue
<1>4. IInv /\ PendingApplied /\ [Next]_vars =>
        /\ [Promised => Promised' \/ pc' # "idle"]_vars
        /\ [Promised /\ Issue => Served']_vars
        /\ [Promised /\ Served => Served' \/ pc' # "idle"]_vars
    <2>1. Issue => pc' = pc
        BY DEF Issue, IssueSecret
    <2>. QED
        BY <2>1, PromisedStep, PromisedCanIssue
<1>. QED
    BY <1>2, <1>3, <1>4, Invariance, PTL DEF Spec, PromiseStays, IssueServes, ServedStays
=============================================================================
