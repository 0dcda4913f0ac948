------------------------------ MODULE UaCrypto ------------------------------
(***************************************************************************)
(* The helpers of src/asyncua/crypto/uacrypto.py whose logic is the        *)
(* module's own: the DER header walk of x509_from_der, the key derivation  *)
(* of p_sha1 / p_sha256, the PEM/DER choice of load_certificate and        *)
(* load_private_key, and the verdict of check_certificate.  The primitives *)
(* of the cryptography package (HMAC, the certificate parser) are symbolic *)
(* terms: HMAC(k, m) is the record <<"hmac", k, m>> standing for its       *)
(* digest, and a certificate is the DER text it was parsed from.           *)
(* A caller calls one helper per step with any input of the bounded input  *)
(* sets; "last" holds the call and what it returned or raised.             *)
(***************************************************************************)
EXTENDS Integers, SequencesExt, Bitwise

CONSTANTS
    DerInputs,     \* byte strings given to x509_from_der
    Secrets,       \* secrets given to p_sha*
    Seeds,         \* seeds given to p_sha*
    SizeLists,     \* the sizes tuples given to p_sha*
    DigestSizes,   \* hashes.SHA1.digest_size = 20, hashes.SHA256.digest_size = 32
    KeyPaths,      \* path_or_content: [kind: "bytes"|"str"|"Path", suffix, pem]
    Extensions,    \* the extension argument: None, "pem", "PEM", ...
    Certs,         \* certificates: [expired, early, san, uris, dns]
    AppUris,       \* application_uri arguments
    Hostnames,     \* hostname arguments (None included)
    None

VARIABLE last      \* [fn, input, out] of the latest call, or None

(***************************** x509_from_der ******************************)
Raise(exc) == [kind |-> "raise", exc |-> exc]
Cert(der)  == [kind |-> "cert", der |-> der]

(* Python's s[from:to] for 0-based from/to: clipped at the end of s.      *)
PySlice(s, from, to) ==
    IF from >= Len(s) THEN <<>> ELSE SubSeq(s, from + 1, IF to < Len(s) THEN to ELSE Len(s))

(* int.from_bytes(b, "big").                                               *)
FromBytesBig(b) == FoldLeft(LAMBDA acc, x : acc * 256 + x, 0, b)

(* X.690 8.1.3, read independently of the code: a length octet below 128  *)
(* is the length; 0x80 + k announces k big-endian length octets (k >= 1,  *)
(* all present).  [len, octets] or None when the header is incomplete.   *)
RECURSIVE BigEndian(_)
BigEndian(s) == IF s = <<>> THEN 0 ELSE BigEndian(Front(s)) * 256 + Last(s)
LengthOf(s) ==
    IF s = <<>> THEN None
    ELSE IF s[1] < 128 THEN [len |-> s[1], octets |-> 1]
    ELSE IF s[1] = 128 \/ Len(s) < 1 + (s[1] - 128) THEN None
    ELSE [len |-> BigEndian(SubSeq(s, 2, 1 + (s[1] - 128))), octets |-> 1 + (s[1] - 128)]

(* The first complete SEQUENCE element of data, or None.                   *)
FirstElement(data) ==
    IF data = <<>> \/ data[1] # 48 THEN None
    ELSE LET l == LengthOf(Tail(data)) IN
         IF l = None \/ Len(data) < 1 + l.octets + l.len THEN None
         ELSE SubSeq(data, 1, 1 + l.octets + l.len)

(* x509.load_der_x509_certificate (the cryptography package): a single   *)
(* certificate, a non-empty SEQUENCE, loads; a certificate followed by    *)
(* more bytes raises ValueError "ParseError { kind: ExtraData }"; any      *)
(* other text raises another ValueError.                                   *)
LoadDer(data) ==
    LET first == FirstElement(data) IN
    CASE first = None \/ Len(first) = 2 -> Raise("ValueError")
      [] first = data                   -> Cert(data)
      [] OTHER                          -> Raise("ExtraData")

(* Mutant of DerHeader: the header counts the tag octet once too few.     *)
DerHeaderShort(data) ==
    LET lb == data[2]
        n  == lb & 127
    IN IF lb < 128 THEN [hdr |-> 2, len |-> lb]
       ELSE [hdr |-> 1 + n, len |-> FromBytesBig(PySlice(data, 2, 2 + n))]

(* The tag and length octets at offset 0: a length byte below 128 is the  *)
(* length (header 2 octets), else its low 7 bits count the big-endian     *)
(* length octets that follow (header 2 + that many).                      *)
DerHeader(data) ==
    LET lb == data[2]
        n  == lb & 127
    IN IF lb < 128 THEN [hdr |-> 2, len |-> lb]
       ELSE [hdr |-> 2 + n, len |-> FromBytesBig(PySlice(data, 2, 2 + n))]

(* x509_from_der(data): empty data is None; otherwise the whole text is   *)
(* loaded, and on ExtraData (any other error is re-raised) the first      *)
(* certificate data[0:header + length] is cut out and loaded.  The loop   *)
(* returns in its first round: offset stays 0, and a first byte other     *)
(* than 0x30 never comes with ExtraData.                                  *)
X509FromDer(data) ==
    IF data = <<>> THEN None
    ELSE LET whole == LoadDer(data) IN
         IF whole # Raise("ExtraData") THEN whole
         ELSE LET h == DerHeader(data) IN LoadDer(PySlice(data, 0, h.hdr + h.len))

(********************************* p_sha **********************************)
Hmac(key, msg) == <<"hmac", key, msg>>

(* The digest_size bytes of one HMAC result.                               *)
Digest(t, d) == [i \in 1..d |-> [of |-> t, byte |-> i]]

(* while len(result) < full_size: accum = hmac(secret, accum);             *)
(* result += hmac(secret, accum + seed).                                    *)
RECURSIVE PShaStream(_, _, _, _, _, _)
PShaStream(secret, seed, full, d, accum, result) ==
    IF Len(result) < full
    THEN LET a == Hmac(secret, accum)
         IN PShaStream(secret, seed, full, d, a, result \o Digest(Hmac(secret, <<a, seed>>), d))
    ELSE result

(* Mutant of PShaSplit: result not advanced, every key from the start.    *)
PShaSplitNoAdvance(stream, sizes) ==
    FoldLeft(LAMBDA acc, size : [parts |-> Append(acc.parts, PySlice(acc.rest, 0, size)), rest |-> acc.rest],
             [parts |-> <<>>, rest |-> stream], sizes).parts

(* for size in sizes: parts.append(result[:size]); result = result[size:] *)
PShaSplit(stream, sizes) ==
    FoldLeft(LAMBDA acc, size : [parts |-> Append(acc.parts, PySlice(acc.rest, 0, size)),
                                 rest |-> PySlice(acc.rest, size, Len(acc.rest))],
             [parts |-> <<>>, rest |-> stream], sizes).parts

(* Mutant of PSha: full_size = size instead of full_size += size.        *)
PShaLastSizeOnly(secret, seed, sizes, d) ==
    PShaSplit(PShaStream(secret, seed, IF sizes = <<>> THEN 0 ELSE Last(sizes), d, seed, <<>>), sizes)

(* p_sha1 / p_sha256 with the digest size d of their hash.                 *)
PSha(secret, seed, sizes, d) ==
    PShaSplit(PShaStream(secret, seed, FoldLeft(LAMBDA s, x : s + x, 0, sizes), d, seed, <<>>), sizes)

(************************ load_certificate / load_private_key ***************)
(* The suffix of a str or Path, "" for bytes content.                     *)
ExtOf(p) == IF p.kind \in {"str", "Path"} THEN p.suffix ELSE ""

(* get_content: bytes are the content, a path is read (aiofiles).         *)
GetContent(p) == [pem |-> p.pem]

(* The loader picked by the suffix and the extension argument reads the   *)
(* content or raises ValueError for the other format.                     *)
ReadAs(content, pem) == IF content.pem = pem THEN [kind |-> "loaded"] ELSE Raise("ValueError")

(* load_certificate: PEM when the suffix is ".pem" or the extension is    *)
(* "pem" or "PEM", DER otherwise.                                          *)
LoadCertificate(p, extension) ==
    ReadAs(GetContent(p), ExtOf(p) = ".pem" \/ extension \in {"pem", "PEM"})

(* load_private_key: the same choice (a str password is encoded first).  *)
LoadPrivateKey(p, extension) ==
    ReadAs(GetContent(p), ExtOf(p) = ".pem" \/ extension \in {"pem", "PEM"})

(**************************** check_certificate ****************************)
(* err is set for an expired or not yet valid certificate, for a missing  *)
(* SubjectAlternativeName, for an application_uri not among its URIs, and *)
(* for a given hostname not among its DNS names.                           *)
CheckCertificate(c, uri, host) ==
    \/ c.expired
    \/ c.early
    \/ c.san = FALSE
    \/ c.san /\ uri \notin c.uris
    \/ c.san /\ host # None /\ host \notin c.dns

(******************************** the caller *******************************)
Init == last = None

CallX509FromDer ==
    \E d \in DerInputs : last' = [fn |-> "x509_from_der", input |-> d, out |-> X509FromDer(d)]

CallPSha ==
    \E secret \in Secrets, seed \in Seeds, sizes \in SizeLists, d \in DigestSizes :
        last' = [fn |-> "p_sha", input |-> [secret |-> secret, seed |-> seed, sizes |-> sizes, d |-> d],
                 out |-> PSha(secret, seed, sizes, d)]

CallLoadCertificate ==
    \E p \in KeyPaths, e \in Extensions :
        last' = [fn |-> "load_certificate", input |-> [p |-> p, ext |-> e], out |-> LoadCertificate(p, e)]

CallLoadPrivateKey ==
    \E p \in KeyPaths, e \in Extensions :
        last' = [fn |-> "load_private_key", input |-> [p |-> p, ext |-> e], out |-> LoadPrivateKey(p, e)]

CallCheckCertificate ==
    \E c \in Certs, uri \in AppUris, host \in Hostnames :
        last' = [fn |-> "check_certificate", input |-> [c |-> c, uri |-> uri, host |-> host],
                 out |-> CheckCertificate(c, uri, host)]

Next == CallX509FromDer \/ CallPSha \/ CallLoadCertificate \/ CallLoadPrivateKey \/ CallCheckCertificate

Spec == Init /\ [][Next]_last

-----------------------------------------------------------------------------
(* Every helper returns its kind of result; p_sha returns one key per     *)
(* requested size, of that size ("Lengths of keys will match sizes").     *)
TypeOK ==
    last = None \/
    /\ last.fn \in {"x509_from_der", "p_sha", "load_certificate", "load_private_key", "check_certificate"}
    /\ last.fn = "x509_from_der" => last.out = None \/ last.out.kind \in {"cert", "raise"}
    /\ last.fn = "p_sha" =>
          /\ Len(last.out) = Len(last.input.sizes)
          /\ \A j \in DOMAIN last.out : Len(last.out[j]) = last.input.sizes[j]
    /\ last.fn \in {"load_certificate", "load_private_key"} => last.out \in {[kind |-> "loaded"], Raise("ValueError")}
    /\ last.fn = "check_certificate" => last.out \in BOOLEAN

(* x509_from_der returns what the DER rules give: None for no data, the   *)
(* first complete SEQUENCE of a chain (short and long form lengths, at    *)
(* the 127/128 and 255/256 boundaries) when it is a certificate, and an   *)
(* exception otherwise; the hand-written header walk never cuts a         *)
(* certificate short or long.                                              *)
FirstCertificateOfChain ==
    last # None /\ last.fn = "x509_from_der" =>
        LET f == FirstElement(last.input) IN
        CASE last.input = <<>>           -> last.out = None
          [] f = None \/ Len(f) = 2      -> last.out.kind = "raise"
          [] OTHER                       -> last.out = Cert(f)

(* The P_hash of RFC 2246 section 5, read independently of the code:       *)
(* A(0) = seed, A(i) = HMAC(secret, A(i-1)), and byte n of the stream is  *)
(* byte n of HMAC(secret, A(1) + seed) + HMAC(secret, A(2) + seed) + ...   *)
RECURSIVE RefA(_, _, _)
RefA(secret, seed, i) == IF i = 0 THEN seed ELSE Hmac(secret, RefA(secret, seed, i - 1))
RefByte(secret, seed, d, n) ==
    [of |-> Hmac(secret, <<RefA(secret, seed, (n - 1) \div d + 1), seed>>), byte |-> ((n - 1) % d) + 1]

(* p_sha1 / p_sha256 return one key per requested size, of exactly that   *)
(* size, the keys being consecutive slices of the P_hash stream: the      *)
(* HMAC chain and the splitting loop agree with RFC 2246 for zero sizes,  *)
(* sizes that are no multiple of the digest, and several keys.            *)
KeysAreConsecutivePHash ==
    last # None /\ last.fn = "p_sha" =>
        LET in == last.input
            Offset(j) == FoldLeft(LAMBDA s, x : s + x, 0, SubSeq(in.sizes, 1, j - 1))
        IN /\ Len(last.out) = Len(in.sizes)
           /\ \A j \in DOMAIN in.sizes :
                 last.out[j] = [k \in 1..in.sizes[j] |-> RefByte(in.secret, in.seed, in.d, Offset(j) + k)]
=============================================================================
