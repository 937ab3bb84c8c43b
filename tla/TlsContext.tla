----------------------------- MODULE TlsContext -----------------------------
(***************************************************************************)
(* What the C functions of openssl.c and schannel.c allocate and release.  *)
(* A call is a record of the resources it took, the ones it gave back and  *)
(* whether it succeeded; a function is the set of the calls that can       *)
(* happen, one for each of its return statements.                          *)
(*                                                                         *)
(*   "ctx"    an SSL_CTX of the connection's own, or struct Context        *)
(*   "ssl"    the SSL object               "bio"    its two BIOs           *)
(*   "cred"   CredHandle                   "sec"    CtxtHandle             *)
(*   "store"  custom_root_store            "engine" the chain engine       *)
(*   "cert", "chain", "pfx"  what one call takes and gives back            *)
(***************************************************************************)
EXTENDS Integers, Sequences

Resources == {"ctx", "ssl", "bio", "cred", "sec", "store", "engine", "cert", "chain", "pfx"}

Succeeds(took, gave) == [took |-> took, gave |-> gave, ok |-> TRUE]
Fails(took, gave)    == [took |-> took, gave |-> gave, ok |-> FALSE]

\* The ledger after a call.  "bad": released without being held, or taken twice.
NoResources == [r \in Resources |-> "none"]
Ledger(res, call) ==
    [r \in Resources |->
        LET mid == IF r \notin call.took THEN res[r]
                   ELSE IF res[r] = "none" THEN "live" ELSE "bad"
        IN IF r \notin call.gave THEN mid
           ELSE IF mid = "live" THEN "none" ELSE "bad"]

Live(res) == {r \in Resources : res[r] = "live"}

-----------------------------------------------------------------------------
(* openssl.c *)

client_ctx == {Fails({}, {}), Succeeds({"ctx"}, {})}

ssl_ctx_add_root_certificate ==
    {Fails({}, {}), Fails({"cert"}, {"cert"}), Succeeds({"cert"}, {"cert"})}

\* SSL_new is taken to succeed: its caller does not look.
ssl_new == Succeeds({"ssl", "bio"}, {})

\* SSL_free releases the BIOs it was given, and destroy_custom_bio their endpoint.
ssl_free(res) == Succeeds({}, {"ssl", "bio"} \cup ({"ctx"} \cap Live(res)))

-----------------------------------------------------------------------------
(* schannel.c.  state is the state field of struct Context. *)

schannel_new == Succeeds({"ctx"}, {})

\* The cases of the switch fall through.
schannel_free(res, state) ==
    Succeeds({}, {"ctx"} \cup (Live(res) \cap {"engine", "store"})
                 \cup (CASE state = "Context" -> {"sec", "cred"}
                         [] state = "Handle"  -> {"cred"}
                         [] OTHER             -> {}))

\* The one that is there, or a new one.
get_or_create(r, res) == {r} \ Live(res)

init_client == {Fails({}, {}), Succeeds({"cred"}, {})}

\* CertCreateCertificateContext, CertOpenStore or CertAddCertificateContextToStore
\* fails; a chain engine made for the old content of the store is dropped.
schannel_add_root_certificate(res) ==
    LET store == get_or_create("store", res)
        stale == {"engine"} \cap Live(res)
    IN {Fails({}, {}), Fails({"cert"}, {"cert"}),
        Fails({"cert"} \cup store, {"cert"} \cup stale),
        Succeeds({"cert"} \cup store, {"cert"} \cup stale)}

\* PFXImportCertStore, CertFindCertificateInStore or AcquireCredentialsHandle fails.
init_server ==
    {Fails({}, {}), Fails({"pfx"}, {"pfx"}), Fails({"pfx", "cert"}, {"pfx", "cert"}),
     Succeeds({"pfx", "cert", "cred"}, {"pfx", "cert"})}

\* Mutant of verify_peer_certificate: the policy's verdict is not returned.
verify_peer_certificate_unread(res, trusted) ==
    LET engine == get_or_create("engine", res)
    IN {Fails({}, {}), Fails({"cert"}, {"cert"}),
        Succeeds({"cert", "chain"} \cup engine, {"cert", "chain"})}

\* There is no certificate; no chain engine; no chain; the policy cannot be checked
\* or does not accept the chain (trusted: whether it does).
verify_peer_certificate(res, trusted) ==
    LET engine == get_or_create("engine", res)
        all    == {"cert", "chain"}
    IN {Fails({}, {}), Fails({"cert"}, {"cert"}), Fails({"cert"} \cup engine, {"cert"}),
        Fails(all \cup engine, all)}
       \cup (IF trusted THEN {Succeeds(all \cup engine, all)} ELSE {})

=============================================================================
