----------------------------- MODULE MC_UaCrypto -----------------------------
EXTENDS UaCrypto

(* The DER encoding of a length (short form below 128, then 0x81 n and    *)
(* 0x82 hi lo) and a certificate of n body octets, all equal to fill.      *)
MCEncLen(n) == IF n < 128 THEN <<n>> ELSE IF n < 256 THEN <<129, n>> ELSE <<130, n \div 256, n % 256>>
MCCertDer(n, fill) == <<48>> \o MCEncLen(n) \o [i \in 1..n |-> fill]

(* Body lengths at the short/long form boundary and at the one/two        *)
(* length-octet boundary.                                                  *)
MCBodyLens == {1, 127, 128, 255, 256}

(* Chains of one or two certificates (the k-th filled with k), followed   *)
(* by nothing, a dangling SEQUENCE tag, or an ASN.1 NULL; a lone empty     *)
(* SEQUENCE; a truncated certificate; no data at all.                      *)
MCChains == {<<a>> : a \in MCBodyLens} \cup {<<a, b>> : a, b \in MCBodyLens}
MCDerInputs ==
    {MCCertDer(ch[1], 1) \o (IF Len(ch) = 2 THEN MCCertDer(ch[2], 2) ELSE <<>>) \o t :
        ch \in MCChains, t \in {<<>>, <<48>>, <<5, 0>>}}
    \cup {<<>>, <<48, 0>>, <<48, 0, 5, 0>>, Front(MCCertDer(128, 1)), Front(MCCertDer(128, 1)) \o <<5, 0>>}

(* Key sizes of the security policies (signature key, encryption key, IV) *)
(* and the edge cases: none, a zero size, a size one past a digest.        *)
MCSizeLists == {<<>>, <<0>>, <<20>>, <<21, 4>>, <<32, 32, 16>>, <<16, 0, 24>>}

MCKeyPaths ==
    {[kind |-> k, suffix |-> s, pem |-> b] : k \in {"str", "Path"}, s \in {".pem", ".PEM", ".der", ""}, b \in BOOLEAN}
    \cup {[kind |-> "bytes", suffix |-> "", pem |-> b] : b \in BOOLEAN}

MCCerts ==
    [expired : BOOLEAN, early : BOOLEAN, san : BOOLEAN, uris : SUBSET {"urn:app"}, dns : SUBSET {"host"}]
=============================================================================
