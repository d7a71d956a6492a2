--------------------------- MODULE AgentArguments ---------------------------
(***************************************************************************)
(* From a ModelValidation and a pod's annotations to the arguments the      *)
(* webhook gives the agent (internal/webhooks/pod_webhook.go), and from     *)
(* those to the options of a verifier (internal/validation).                *)
(*                                                                          *)
(* A text is a sequence of strings.  A path is what is between its slashes, *)
(* as it is written, with "/" for what is empty: "/data/m" is               *)
(* <<"/", "data", "m">>, "/data/" is <<"/", "data", "/">> and "/" is        *)
(* <<"/", "/">>.  --flag=text is one argument, <<"--flag=">> \o text.       *)
(* Something optional is a set of at most one element.                      *)
(***************************************************************************)
EXTENDS Naturals, SequencesExt

Text == Seq(STRING)

Optional(S) == {o \in SUBSET S : \A x, y \in o : x = y}
Only(o)     == CHOOSE x \in o : TRUE

(* The sequence without x: SelectSeq, written so that it can be proved      *)
(* about.                                                                   *)
AllBut(seq, x) ==
    LET kept[i \in 0 .. Len(seq)] ==
            IF i = 0 THEN <<>>
            ELSE IF seq[i] = x THEN kept[i - 1] ELSE Append(kept[i - 1], seq[i])
    IN kept[Len(seq)]

-----------------------------------------------------------------------------
(* api/v1alpha1: the spec of a ModelValidation *)

Switch == {"ignoreGitPaths", "ignoreUnsignedFiles", "allowSymlinks"}

Model == [path : Text, signaturePath : Text, ignorePaths : Seq(Text),
          switches : [Switch -> Optional(BOOLEAN)]]

(* One validation method, as the CRD's rule wants it.                       *)
ValidationConfig ==
    {c \in [sigstore  : Optional([identity : Text, issuer : Text]),
            publicKey : Optional(Text),
            pki       : Optional(Text),
            trust     : Optional(Text)] :
        \E given \in {"sigstore", "publicKey", "pki"} :
            \A m \in {"sigstore", "publicKey", "pki"} : c[m] # {} <=> m = given}

(* The annotations of a pod: what is between the commas, trimmed, and how   *)
(* each of the others reads.                                                *)
Annotations == [ignorePaths : Seq(Text),
                switches : [Switch -> {"absent", "true", "false", "unreadable"}]]

-----------------------------------------------------------------------------
(* internal/webhooks *)

parseBoolAnnotation(raw) == IF raw = "true" THEN {TRUE}
                            ELSE IF raw = "false" THEN {FALSE} ELSE {}

(* The empty ones are dropped.                                              *)
Named(texts) == AllBut(texts, <<>>)

mergeModelWithAnnotations_TrueOnly(model, annotations) ==
    LET paths == Named(annotations.ignorePaths)
        On(s) == parseBoolAnnotation(annotations.switches[s]) \ {FALSE} IN
    [model EXCEPT !.ignorePaths = IF paths = <<>> THEN @ ELSE paths,
                  !.switches = [s \in Switch |-> IF On(s) = {} THEN @[s] ELSE On(s)]]

mergeModelWithAnnotations(model, annotations) ==
    LET paths == Named(annotations.ignorePaths)
        Set(s) == parseBoolAnnotation(annotations.switches[s]) IN
    [model EXCEPT !.ignorePaths = IF paths = <<>> THEN @ ELSE paths,
                  !.switches = [s \in Switch |-> IF Set(s) = {} THEN @[s] ELSE Set(s)]]

MethodArgs(config, signature) ==
    IF config.sigstore # {} THEN
        << <<"sigstore">>, signature,
           <<"--identity">>, Only(config.sigstore).identity,
           <<"--identity_provider">>, Only(config.sigstore).issuer >>
    ELSE IF config.publicKey # {} THEN
        << <<"key">>, signature, <<"--public_key">>, Only(config.publicKey) >>
    ELSE << <<"certificate">>, signature, <<"--certificate_chain">>, Only(config.pki) >>

SwitchArgs(switch, whenOn, whenOff) ==
    IF switch = {TRUE} THEN << <<whenOn>> >>
    ELSE IF switch = {FALSE} /\ whenOff # "" THEN << <<whenOff>> >> ELSE <<>>

validationConfigToArgs(config, model) ==
    MethodArgs(config, <<"--signature=">> \o model.signaturePath)
    \o (IF config.trust = {} THEN <<>> ELSE << <<"--trust_config">>, Only(config.trust) >>)
    \o [i \in 1 .. 2 * Len(model.ignorePaths) |->
          IF i % 2 = 1 THEN <<"--ignore-paths">> ELSE model.ignorePaths[i \div 2]]
    \o SwitchArgs(model.switches["ignoreGitPaths"],
                  "--ignore-git-paths", "--no-ignore-git-paths")
    \o SwitchArgs(model.switches["ignoreUnsignedFiles"],
                  "--ignore_unsigned_files", "--no-ignore_unsigned_files")
    \o SwitchArgs(model.switches["allowSymlinks"], "--allow_symlinks", "")

VerifyArgs(config, model) ==
    << <<"verify">> >> \o validationConfigToArgs(config, model) \o << model.path >>

-----------------------------------------------------------------------------
(* cmd/validation-agent: flag.Parse stops at the first argument that is     *)
(* not a flag.                                                              *)

Is(arg, name) == arg # <<>> /\ arg[1] = name

Flags(args) == {i \in DOMAIN args :
                  \A j \in 1 .. i : Is(args[j], "--interval=") \/ Is(args[j], "--skip-initial")}

IntervalOf(args) == {Tail(args[i]) : i \in {f \in Flags(args) : Is(args[f], "--interval=")}}

SkipsInitial(args) == \E i \in Flags(args) : Is(args[i], "--skip-initial")

flagArgs(args) == SubSeq(args, Cardinality(Flags(args)) + 1, Len(args))

-----------------------------------------------------------------------------
(* internal/validation *)

Field == {"model", "signature", "identity", "identityProvider", "publicKey",
          "certificateChain", "trustConfig"}

(* What the argument after a flag is taken for.                             *)
Value(arg) == CASE arg = <<"--identity">>          -> "identity"
                [] arg = <<"--identity_provider">> -> "identityProvider"
                [] arg = <<"--public_key">>        -> "publicKey"
                [] arg = <<"--certificate_chain">> -> "certificateChain"
                [] arg = <<"--trust_config">>      -> "trustConfig"
                [] arg = <<"--ignore-paths">>      -> "ignorePaths"
                [] OTHER -> "none"

SwitchSet(arg) == CASE arg = <<"--ignore-git-paths">>         -> <<"ignoreGitPaths", TRUE>>
                    [] arg = <<"--no-ignore-git-paths">>      -> <<"ignoreGitPaths", FALSE>>
                    [] arg = <<"--ignore_unsigned_files">>    -> <<"ignoreUnsignedFiles", TRUE>>
                    [] arg = <<"--no-ignore_unsigned_files">> -> <<"ignoreUnsignedFiles", FALSE>>
                    [] arg = <<"--allow_symlinks">>           -> <<"allowSymlinks", TRUE>>
                    [] OTHER -> <<>>

NewConfig(method) == [method |-> method, text |-> [f \in Field |-> <<>>], ignorePaths |-> <<>>,
                      switches |-> [s \in Switch |-> {}], value |-> "none", failed |-> FALSE]

(* One turn of the loop for a flag with its value is two here: cfg.value is *)
(* what the next argument is taken for, whatever it looks like.             *)
Read(cfg, arg, last) ==
    IF cfg.value = "ignorePaths"
        THEN [cfg EXCEPT !.value = "none", !.ignorePaths = Append(@, arg)]
    ELSE IF cfg.value # "none"
        THEN [cfg EXCEPT !.value = "none", !.text[cfg.value] = arg]
    ELSE IF Is(arg, "--signature=") THEN [cfg EXCEPT !.text["signature"] = Tail(arg)]
    ELSE IF Value(arg) # "none"     THEN [cfg EXCEPT !.value = Value(arg)]
    ELSE IF SwitchSet(arg) # <<>>
        THEN [cfg EXCEPT !.switches[SwitchSet(arg)[1]] = {SwitchSet(arg)[2]}]
    ELSE IF last THEN [cfg EXCEPT !.text["model"] = arg]
    ELSE [cfg EXCEPT !.failed = TRUE]

Method == {"sigstore", "key", "certificate"}

(* The method and the flags; an error is a set of no configuration.         *)
ParseArgs(args) ==
    IF Len(args) < 3 \/ args[1] # <<"verify">> \/ args[2] \notin {<<m>> : m \in Method}
    THEN {}
    ELSE LET read[i \in 2 .. Len(args)] ==
                 IF i = 2 THEN NewConfig(args[2][1])
                 ELSE Read(read[i - 1], args[i], i = Len(args))
             cfg == read[Len(args)]
         IN IF cfg.failed \/ cfg.value # "none" \/ cfg.text["model"] = <<>> THEN {} ELSE {cfg}

(* What the verifier of each method is given.                               *)
Credentials(method) == CASE method = "sigstore"    -> {"identity", "identityProvider", "trustConfig"}
                         [] method = "key"         -> {"publicKey"}
                         [] method = "certificate" -> {"certificateChain"}

Options(cfg) ==
    [method      |-> cfg.method,
     texts       |-> [f \in {"model", "signature"} \cup Credentials(cfg.method) |-> cfg.text[f]],
     ignorePaths |-> cfg.ignorePaths,
     on          |-> {s \in Switch : cfg.switches[s] = {TRUE}}]

-----------------------------------------------------------------------------
(* What the user has asked for: the ModelValidation's configuration, with   *)
(* the options a readable annotation of the pod takes precedence over       *)
(* (README.md:330).                                                         *)
Asked(model, config, annotations) ==
    LET named  == Named(annotations.ignorePaths)
        method == IF config.sigstore # {} THEN "sigstore"
                  ELSE IF config.publicKey # {} THEN "key" ELSE "certificate"
        text == [model |-> model.path, signature |-> model.signaturePath,
                 identity |-> {c.identity : c \in config.sigstore},
                 identityProvider |-> {c.issuer : c \in config.sigstore},
                 publicKey |-> config.publicKey, certificateChain |-> config.pki,
                 trustConfig |-> config.trust]
        Given(f) == IF f \in {"model", "signature"} THEN text[f]
                    ELSE IF text[f] = {} THEN <<>> ELSE Only(text[f])
    IN [method      |-> method,
        texts       |-> [f \in {"model", "signature"} \cup Credentials(method) |-> Given(f)],
        ignorePaths |-> IF named = <<>> THEN model.ignorePaths ELSE named,
        on          |-> {s \in Switch : \/ annotations.switches[s] = "true"
                                        \/ /\ annotations.switches[s] \in {"absent", "unreadable"}
                                           /\ model.switches[s] = {TRUE}}]
=============================================================================
