------------------------------ MODULE MCGates ------------------------------
(***************************************************************************)
(* Chains for Gates, each with the clients that matter to it, and the       *)
(* tokens that differ in one thing from a good one.                         *)
(***************************************************************************)
EXTENDS Gates, TLC

MW(name) == [mw |-> name]
Jwt(algs, public) == [mw |-> "JWTAuth", algs |-> algs, public |-> public, requireExpiry |-> FALSE,
                      secret |-> IF algs \cap HMACs = {} THEN "nil" ELSE "k", skew |-> 0,
                      issuers |-> {}, audiences |-> {}]
Strict == [Jwt({"HS256", "HS384"}, "nil") EXCEPT !.requireExpiry = TRUE, !.skew = 1,
                                                 !.issuers = {"i"}, !.audiences = {"a"}]
Cors(all) == [mw |-> "CORS", all |-> all, origins |-> {"o"}, credentials |-> ~ all,
              exposed |-> ~ all, methods |-> TRUE, maxAge |-> TRUE]
Trusting(T) == [mw |-> "RealIP", trusted |-> T]
Vary(v) == [mw |-> "SetHeader", key |-> "Vary", value |-> v]

MCChains == {<<MW("RequestID")>>, <<Trusting({})>>, <<Trusting({"p", "q"})>>,
             <<Cors(TRUE)>>, <<Vary("Accept-Encoding"), Cors(FALSE)>>,
             <<Vary("Origin"), Cors(FALSE), MW("NoCache")>>}
            \cup {<<j>> : j \in {Strict, Jwt({"HS256"}, "nil"), Jwt({"HS256", "RS256"}, "RSA"),
                                 Jwt({"ES256"}, "P256"), Jwt({"ES256"}, "P384"), Jwt({}, "RSA")}}

H(alg, decodes, crit) == [alg |-> alg, decodes |-> decodes, crit |-> crit]
MCHeaders == [hs |-> H("HS256", TRUE, FALSE), hs3 |-> H("HS384", TRUE, FALSE),
              crit |-> H("HS256", TRUE, TRUE), rs |-> H("RS256", TRUE, FALSE),
              es |-> H("ES256", TRUE, FALSE), none |-> H("none", TRUE, FALSE),
              bad |-> H("HS256", FALSE, FALSE)]

C0 == [decodes |-> TRUE, exp |-> 5, nbf |-> 3, iat |-> 1, iss |-> "i", aud |-> {"a", "b"}]
Sig(alg, key, hdr, c) == [alg |-> alg, key |-> key, over |-> <<<<hdr, c>>>>,
                          size |-> IF alg = "ES256" THEN 64 ELSE 0]
Token(hdr, alg, key, c) == [form |-> "jwt", hdr |-> hdr, claims |-> c, sig |-> Sig(alg, key, hdr, c)]

NoToken == [form |-> "none"]
Tokens == {NoToken,
           Token("hs", "HS256", "k", C0), Token("hs3", "HS384", "k", C0), Token("rs", "RS256", "RSA", C0),
           Token("es", "ES256", "P256", C0), [Token("es", "ES256", "P256", C0) EXCEPT !.sig.size = 65],
           Token("hs3", "HS256", "k", C0),          \* signed by another algorithm than it says
           Token("hs", "HS256", "RSA", C0),         \* signed with the public key as the secret
           [Token("hs", "HS256", "k", C0) EXCEPT !.claims.exp = 9],   \* altered after signing
           [Token("hs", "HS256", "k", C0) EXCEPT !.sig.alg = "undecodable"],
           Token("crit", "HS256", "k", C0), Token("none", "none", "k", C0), Token("bad", "HS256", "k", C0)}
          \cup {Token("hs", "HS256", "k", c) :
                  c \in {[C0 EXCEPT !.exp = 0], [C0 EXCEPT !.exp = -1], [C0 EXCEPT !.iat = -1],
                         [C0 EXCEPT !.nbf = 0], [C0 EXCEPT !.iss = "j"], [C0 EXCEPT !.aud = {"b"}],
                         [C0 EXCEPT !.decodes = FALSE]}}

Client == [peer |-> "c", xff |-> <<>>, realIP |-> "bad", validID |-> FALSE, origin |-> "none",
           method |-> "GET", token |-> NoToken]
Addrs == {"bad", "p", "q", "x", "y"}
MCClients(c) ==
    CASE c[Len(c)].mw = "JWTAuth" -> {[Client EXCEPT !.token = t] : t \in Tokens}
      [] c[Len(c)].mw = "RealIP" -> {[Client EXCEPT !.peer = p, !.xff = x] :
                                       p \in {"p", "x", "bad"}, x \in BoundedSeq(Addrs, 3)}
                                    \cup {[Client EXCEPT !.peer = p, !.realIP = a] :
                                       p \in {"p", "x"}, a \in {"x", "y"}}
      [] c[Len(c)].mw = "RequestID" -> {[Client EXCEPT !.validID = b] : b \in BOOLEAN}
      [] OTHER -> {[Client EXCEPT !.origin = o, !.method = m] :
                     o \in {"none", "invalid", "o", "other"}, m \in {"GET", "OPTIONS"}}

Symmetry == Permutations(Request)
=============================================================================
