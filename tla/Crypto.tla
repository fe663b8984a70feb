-------------------------------- MODULE Crypto --------------------------------
(***************************************************************************)
(* The cryptographic primitives (src/security/crypto.cpp) as symbolic      *)
(* terms: a term can only be built by whoever has what it is built from,   *)
(* and two terms are the same only if they are built from the same.  Calls *)
(* into OpenSSL are taken to succeed.                                      *)
(*                                                                         *)
(* A user's long-term key pair is named by the user, an ephemeral one by   *)
(* the value that get_ecdh_key is given.                                   *)
(***************************************************************************)
EXTENDS Integers, Sequences

CONSTANT FAIL   \* what a failed operation returns

(* get_ecdh_key, and the half of the pair that is sent.                    *)
EcdhKey(fresh) == <<"ecdh", fresh>>
Public(pair)   == <<"public", pair>>

(* dhke: both ends work out the same secret.                               *)
Dhke(mine, other) == <<"secret", {Public(mine), other}>>

(* hkdf: the label and the two nonces are the "info".                      *)
Hkdf(secret, nonce1, nonce2, label) == <<"hkdf", secret, label, nonce1, nonce2>>

(* dsa_sign and dsa_verify.                                                *)
DsaSign(msg, key)       == <<"signature", key, msg>>
DsaVerify(msg, ds, key) == ds = DsaSign(msg, key)

(* aes_gcm_encrypt: a byte of ciphertext for each byte of plaintext, and a *)
(* tag over everything.  The bytes are <<kind, index, value>>, as in       *)
(* Messages.                                                               *)
AesGcmEncrypt(pt, aad, key, iv) ==
  [ct  |-> [i \in DOMAIN pt |-> <<"ct", i, <<key, iv, pt[i]>>>>],
   tag |-> <<"gcm", key, iv, aad, pt>>]

(* aes_gcm_decrypt fails when the tag does not fit what it is given.       *)
Plaintext(ct) == [i \in DOMAIN ct |-> ct[i][3][3]]
TagFits(ct, tag, aad, key, iv) ==
  AesGcmEncrypt(Plaintext(ct), aad, key, iv) = [ct |-> ct, tag |-> tag]

AesGcmDecrypt(ct, aad, key, iv, tag) ==
  IF TagFits(ct, tag, aad, key, iv) THEN Plaintext(ct) ELSE FAIL

(* A certificate signed by the authority, and verify_peer_cert with the    *)
(* store of those that are neither expired nor revoked.                    *)
Certificate(user)           == <<"certificate", user>>
UsernameFromCert(cert)      == cert[2]
PublicKey(cert)             == cert[2]
VerifyPeerCert(store, cert) == cert \in store
=============================================================================
