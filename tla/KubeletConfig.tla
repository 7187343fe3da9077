---------------------------- MODULE KubeletConfig ----------------------------
(***************************************************************************)
(* How the kubelet client is configured from the client configuration for  *)
(* the API server and the --kubelet-* flags: Run (start.go), then          *)
(* GetKubeletConfig and KubeletClientFor (pkg/sources/summary/configs.go). *)
(* A certificate authority is a value; "" is none.                         *)
(***************************************************************************)

CONSTANTS
    Authorities,    \* the certificate authorities, NoCA among them
    Configs,        \* the client configurations for the API server
    Flags           \* the --kubelet-* flags

NoCA == ""
TLSType ==
    [caData : Authorities, caFile : Authorities, insecure : BOOLEAN, cert : BOOLEAN]
FlagsType == [caFile : Authorities, insecureTLS : BOOLEAN, completelyInsecure : BOOLEAN]
EmptyTLS == [caData |-> NoCA, caFile |-> NoCA, insecure |-> FALSE, cert |-> FALSE]

\* A client-go configuration that has both a CA and the insecure flag is an error.
HasCA(tls) == tls.caData # NoCA \/ tls.caFile # NoCA
Contradictory(tls) == tls.insecure /\ HasCA(tls)

\* A configuration that client-go refuses ends Run before the kubelet client.
ASSUME ConfigsAssumption ==
    /\ Configs \subseteq [token : BOOLEAN, tls : TLSType]
    /\ Flags \subseteq FlagsType
    /\ \A cfg \in Configs : ~Contradictory(cfg.tls)

\* The CA that a kubelet's certificate is verified with; data goes before a file.
Authority(tls) == IF tls.caData # NoCA THEN tls.caData ELSE tls.caFile

\* rest.AnonymousClientConfig: neither token nor certificate.
Anonymous(cfg) == [token |-> FALSE, tls |-> [cfg.tls EXCEPT !.cert = FALSE]]

\* --kubelet-certificate-authority takes the place of the cluster's own CA.
WithKubeletCA(cfg, flags) ==
    IF flags.caFile = NoCA THEN cfg
    ELSE [cfg EXCEPT !.tls.caFile = flags.caFile, !.tls.caData = NoCA]

\* Mistaken: a CA that is not needed is left in place.
KeepsCA(cfg, flags) ==
    IF flags.completelyInsecure
    THEN [Anonymous(cfg) EXCEPT !.tls = EmptyTLS]
    ELSE IF flags.insecureTLS THEN [cfg EXCEPT !.tls.insecure = TRUE] ELSE cfg

GetKubeletConfig(cfg, flags) ==
    IF flags.completelyInsecure
    THEN [Anonymous(cfg) EXCEPT !.tls = EmptyTLS]
    ELSE IF flags.insecureTLS
         THEN [cfg EXCEPT !.tls = [@ EXCEPT !.insecure = TRUE, !.caData = NoCA,
                                            !.caFile = NoCA]]
         ELSE cfg

Scheme(flags) == IF flags.completelyInsecure THEN "http" ELSE "https"

\* What the client does with a kubelet: the scheme it speaks, how it verifies the
\* kubelet and whether it shows who it is.
KubeletClientFor(cfg, flags) ==
    [refused |-> Contradictory(cfg.tls),
     scheme |-> Scheme(flags),
     verifies |-> ~cfg.tls.insecure,
     authority |-> Authority(cfg.tls),
     authenticates |-> cfg.token \/ cfg.tls.cert]

KubeletClient(cfg, flags) ==
    KubeletClientFor(GetKubeletConfig(WithKubeletCA(cfg, flags), flags), flags)

VARIABLES
    given,      \* the configuration and the flags that Run is given
    client      \* {} or the kubelet client

kubeletVars == <<given, client>>

KubeletInit == given \in [cfg : Configs, flags : Flags] /\ client = {}

MakeClient ==
    /\ client' = {KubeletClient(given.cfg, given.flags)}
    /\ UNCHANGED given

KubeletSpec == KubeletInit /\ [][MakeClient]_kubeletVars

-----------------------------------------------------------------------------
(* Properties.                                                             *)

\* No flags make Run fail where the cluster's own configuration works, but for a
\* CA given to a client that is not to verify; nothing that tells who the server
\* is goes out unencrypted; and unless it was told otherwise the client verifies
\* kubelets, with the CA of the flag if there is one (start.go lines 178-187,
\* configs.go lines 24-40).
KubeletTrust ==
    \A made \in client :
        LET flags == given.flags
            told == flags.insecureTLS \/ flags.completelyInsecure
            own == given.cfg.tls
        IN  /\ made.refused <=> ~told /\ own.insecure /\ flags.caFile # NoCA
            /\ made.scheme = "http" => ~made.authenticates
            /\ ~told /\ ~own.insecure =>
                  /\ made.verifies
                  /\ made.authority = IF flags.caFile # NoCA THEN flags.caFile
                                      ELSE Authority(own)
=============================================================================
