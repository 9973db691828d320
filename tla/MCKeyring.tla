----------------------------- MODULE MCKeyring -----------------------------
(* Keyring with one protocol of each kind: vless, minted at bootstrap, whose *)
(* public half can be derived and whose short id cannot, and dnstt, prepared *)
(* when it is turned on, of which only the private half is needed.           *)
EXTENDS Keyring, TLC

CONSTANTS vless, dnstt, key, pub, short_id, server_key, server_pub, b1, b2, b3

MCMinted == (vless :> {key, pub, short_id}) @@ (dnstt :> {})
MCPrepared == (vless :> {}) @@ (dnstt :> {server_key, server_pub})
MCNeeds == (vless :> {key, short_id}) @@ (dnstt :> {server_key})
MCFace == (vless :> pub) @@ (dnstt :> server_pub)
MCSource == pub :> key

MCSymmetry == Permutations(Batch)
=============================================================================
