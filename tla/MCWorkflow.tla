----------------------------- MODULE MCWorkflow -----------------------------
(* Every operation of infisical-api, called once, on its own; but          *)
(* create_sql_dynamic_secret_lease, which is SqlLease.                     *)
EXTENDS Workflow, TLC

Project == INSTANCE ProjectOperations
Secret == INSTANCE SecretOperations
Kms == INSTANCE KmsOperations
Ca == INSTANCE CaOperations
Ssh == INSTANCE SshOperations
Policy == INSTANCE PolicyOperations
Certificate == INSTANCE CertificateOperations
Signer == INSTANCE SignerOperations
Identity == INSTANCE IdentityOperations
Membership == INSTANCE MembershipOperations
Dynamic == INSTANCE DynamicOperations
Automation == INSTANCE AutomationOperations
Rotation == INSTANCE RotationOperations

Asyncs ==
    Project!Operations @@ Secret!Operations @@ Kms!Operations @@ Ca!Operations
      @@ Ssh!Operations @@ Policy!Operations @@ Certificate!Operations
      @@ Signer!Operations @@ Identity!Operations @@ Membership!Operations
      @@ Dynamic!Operations @@ Automation!Operations @@ Rotation!Operations
Handled ==
    Project!Handles @@ Secret!Handles @@ Kms!Handles @@ Ca!Handles @@ Ssh!Handles
      @@ Policy!Handles @@ Certificate!Handles @@ Signer!Handles
      @@ Identity!Handles @@ Membership!Handles @@ Dynamic!Handles
      @@ Automation!Handles @@ Rotation!Handles
Delivered ==
    Project!Delivers \cup Secret!Delivers \cup Kms!Delivers \cup Ca!Delivers
      \cup Ssh!Delivers \cup Policy!Delivers \cup Certificate!Delivers
      \cup Signer!Delivers \cup Identity!Delivers \cup Membership!Delivers
      \cup Dynamic!Delivers \cup Automation!Delivers \cup Rotation!Delivers
Ways ==
    Project!Alternatives @@ Secret!Alternatives @@ Kms!Alternatives
      @@ Ca!Alternatives @@ Ssh!Alternatives @@ Policy!Alternatives
      @@ Certificate!Alternatives @@ Signer!Alternatives @@ Identity!Alternatives
      @@ Membership!Alternatives @@ Dynamic!Alternatives
      @@ Automation!Alternatives @@ Rotation!Alternatives
InputsOf ==
    Project!Declares @@ Secret!Declares @@ Kms!Declares @@ Ca!Declares
      @@ Ssh!Declares @@ Policy!Declares @@ Certificate!Declares
      @@ Signer!Declares @@ Identity!Declares @@ Membership!Declares
      @@ Dynamic!Declares @@ Automation!Declares @@ Rotation!Declares
Tiers ==
    Project!Tiers @@ Secret!Tiers @@ Kms!Tiers @@ Ca!Tiers @@ Ssh!Tiers
      @@ Policy!Tiers @@ Certificate!Tiers @@ Signer!Tiers @@ Identity!Tiers
      @@ Membership!Tiers @@ Dynamic!Tiers @@ Automation!Tiers @@ Rotation!Tiers
Trusts ==
    Project!Trusts @@ Secret!Trusts @@ Kms!Trusts @@ Ca!Trusts @@ Ssh!Trusts
      @@ Policy!Trusts @@ Certificate!Trusts @@ Signer!Trusts @@ Identity!Trusts
      @@ Membership!Trusts @@ Dynamic!Trusts @@ Automation!Trusts
      @@ Rotation!Trusts

MCOperations ==
    LET tools == DOMAIN Asyncs
        ways == DOMAIN Ways
    IN  tools \cup ways
(* The tool that an operation, or one of its ways, belongs to. *)
Tool(o) == IF o \in DOMAIN Ways THEN Ways[o].of ELSE o
(* A place for the result that may become a file, the handler's            *)
(* conversions of the arguments, the async function, and the file.         *)
MCSteps ==
    LET place(o) == IF o \in Delivered THEN Reserve ELSE <<>>
        handler(o) == Check(Handled[Tool(o)], "InvalidArguments")
        function(o) == IF o \in DOMAIN Ways THEN Ways[o].steps ELSE Asyncs[o]
        file(o) == IF o \in Delivered THEN Deliver ELSE <<>>
    IN  [o \in MCOperations |-> place(o) \o handler(o) \o function(o) \o file(o)]
MCDeclares == LET declared(o) == InputsOf[Tool(o)] IN [o \in MCOperations |-> declared(o)]
MCTier == LET tier(o) == Tiers[Tool(o)] IN [o \in MCOperations |-> tier(o)]
MCTrusted ==
    LET trusted(o) == IF Tool(o) \in DOMAIN Trusts THEN Trusts[Tool(o)] ELSE {}
    IN  [o \in MCOperations |-> trusted(o) \cap AllFacts(o)]

ASSUME TablesAgree ==
    /\ DOMAIN Handled = DOMAIN Asyncs
    /\ DOMAIN InputsOf = DOMAIN Asyncs
    /\ DOMAIN Tiers = DOMAIN Asyncs
    /\ DOMAIN Trusts \subseteq DOMAIN Asyncs
    /\ Delivered \subseteq MCOperations
    /\ \A w \in DOMAIN Ways : Ways[w].of \in DOMAIN Asyncs
ASSUME StepsWellFormed ==
    \A o \in MCOperations : RequiresWhatIsShown(o) /\ ExemptsWhatIsSkipped(o)
=============================================================================
