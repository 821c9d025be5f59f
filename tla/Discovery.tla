----------------------------- MODULE Discovery -----------------------------
(***************************************************************************)
(* a2a/discovery.py, a2a/keys.py, a2a/card.py and the public routes of     *)
(* a2a/publisher.py: how a caller comes to trust a peer's card and the     *)
(* peer a caller's token, while processes restart, keys and secrets        *)
(* change, and the HTTP caches that Cache-Control permits lie in between.  *)
(*                                                                         *)
(* Home processes serve the origin the caller was given; Other serves      *)
(* another origin, whose card a home process may pass on as a mirror.  A   *)
(* process with EnvKeyProvider numbers its life: its kid, drawn at start,  *)
(* is that number.  Time passes in Ticks; ages count down.                 *)
(***************************************************************************)
EXTENDS Naturals, FiniteSets

CONSTANTS
    Home,         \* processes that may serve the caller's origin
    Other, Caller,  \* a process of another origin; the caller's own
    Down,
    Setup,        \* Setup[p]: the ways p may be set up when it starts, see Settings
    Secret,       \* values of VOUSSOIR_A2A_JWT_SECRET
    NoSecret,
    CardAge, JwksAge,  \* max-age of the two routes
    MaxTTL,       \* bound: the longest exp of a card, in Ticks
    MaxStarts     \* bound: processes started, and changes of the secret

Process == Home \cup {Other, Caller}
Forever == MaxTTL + 1

\* jwks: where the card's jwks_uri leads, seen from the caller's origin: the keys
\* served there, a path of it where nothing is served (a router mounted under a
\* prefix), another origin, or no jwks_uri.  auth: whether allow-list and algorithm
\* let a token in.  file: the signing key is read from a PEM file.
Settings ==
    [signs : BOOLEAN, file : BOOLEAN, mirror : BOOLEAN, https : BOOLEAN,
     jwks : {"own", "prefixed", "other", "none"}, ttl : 1..Forever,
     auth : {"trusted", "no issuers", "RS256"}, ephemeral : BOOLEAN]

ASSUME DiscoveryAssumption ==
    /\ Other \notin Home /\ Caller \notin Home /\ Other # Caller
    /\ Setup \in [Process -> SUBSET Settings]
    /\ NoSecret \notin Secret
    /\ CardAge \in Nat /\ JwksAge \in Nat /\ MaxTTL \in Nat /\ MaxStarts \in Nat \ {0, 1}

VARIABLES
    proc,      \* proc[p]: [kid, key, conf, secret] of a running process, or Down
    file,      \* file[p]: the key in p's PEM file, 0: none yet
    env,       \* the secret the deployment's environment holds, or NoSecret
    starts,    \* starts and changes so far
    gone,      \* gone[k]: Ticks since home last ran the process of kid k (history)
    shelf,     \* what the HTTP cache holds: card and jwks with the Ticks left
    phase,     \* the discovery: idle, asked, card, accepted, posted, admitted, refused, failed
    verify,    \* verify_signature of the discovery that was asked
    tok,       \* the card received
    jwt        \* the secret the posted JWT is signed with

discoveryVars == <<proc, file, env, starts, gone, shelf, phase, verify, tok, jwt>>

Kid == 1..MaxStarts
SecretOrOwn == Secret \cup Kid \cup {NoSecret}
Up == {w \in Home : proc[w] # Down}
NoCard == [kid |-> 0, key |-> 0, signed |-> FALSE, jwks |-> "none", https |-> FALSE, ttl |-> 0]
Empty == [card |-> NoCard, cardLeft |-> 0, keys |-> {}, keysLeft |-> 0]

Card == [kid : 0..MaxStarts, key : 0..MaxStarts, signed : BOOLEAN, https : BOOLEAN,
         jwks : {"own", "prefixed", "other", "none"}, ttl : 0..Forever]

\* Every variable keeps its type, and a secret is in use exactly while a request made
\* with it is under way: nobody posts unsigned.
DiscoveryTypeOK ==
    /\ \A p \in Process :
          proc[p] = Down
          \/ proc[p] \in [kid : Kid, key : Kid, conf : Setup[p], secret : SecretOrOwn]
    /\ file \in [Process -> 0..MaxStarts]
    /\ env \in Secret \cup {NoSecret} /\ starts \in 0..MaxStarts
    /\ gone \in [Kid -> 0..JwksAge + 1]
    /\ shelf \in [card : Card, cardLeft : 0..CardAge,
                  keys : SUBSET (Kid \X Kid), keysLeft : 0..JwksAge]
    /\ phase \in {"idle", "asked", "card", "accepted", "posted", "admitted", "refused", "failed"}
    /\ verify \in BOOLEAN /\ tok \in Card /\ jwt \in SecretOrOwn
    /\ phase = "posted" <=> jwt # NoSecret
-----------------------------------------------------------------------------
(* The publisher: keys.py and the routes.                                  *)

\* The key of life k: from the PEM file, else generated.
KeyOf(p, k, conf) == IF conf.file /\ file[p] > 0 THEN file[p] ELSE k

\* jwt_secret, at its first use: the environment's, else one of its own if allowed.
\* It is kept until the process ends.
SecretOf(k, conf) == IF env # NoSecret THEN env ELSE IF conf.ephemeral THEN k ELSE NoSecret

Start(p, conf) ==
    /\ starts < MaxStarts /\ conf \in Setup[p]
    /\ starts' = starts + 1
    /\ proc' = [proc EXCEPT ![p] = [kid |-> starts', key |-> KeyOf(p, starts', conf),
                                    conf |-> conf, secret |-> SecretOf(starts', conf)]]
    /\ file' = IF conf.file THEN [file EXCEPT ![p] = KeyOf(p, starts', conf)] ELSE file
    /\ gone' = IF p \in Home THEN [gone EXCEPT ![starts'] = 0] ELSE gone
    /\ UNCHANGED <<env, shelf, phase, verify, tok, jwt>>

Stop(w) ==
    /\ w \in Up
    /\ proc' = [proc EXCEPT ![w] = Down]
    /\ UNCHANGED <<file, env, starts, gone, shelf, phase, verify, tok, jwt>>

\* The operator changes the environment that later processes start with.
Rotate ==
    /\ starts < MaxStarts
    /\ starts' = starts + 1
    /\ env' \in Secret \ {env}
    /\ UNCHANGED <<proc, file, gone, shelf, phase, verify, tok, jwt>>

\* get_card: a compact JWS, or JSON when the provider has no signing key or the Accept
\* header names JSON alone (`json`).  JSON cannot be verified: all that matters of it is
\* where it leads.  A mirror hands on the other origin's.
Source(w) == IF proc[w].conf.mirror /\ proc[Other] # Down THEN Other ELSE w
LeadsTo(w) == IF Source(w) = Other THEN "other" ELSE proc[w].conf.jwks
CardOf(w, json) ==
    LET p == proc[Source(w)] IN
    IF p.conf.signs /\ ~json
    THEN [kid |-> p.kid, key |-> p.key, signed |-> TRUE, https |-> p.conf.https,
          jwks |-> LeadsTo(w), ttl |-> p.conf.ttl]
    ELSE [NoCard EXCEPT !.jwks = LeadsTo(w)]

\* Faulty variant: the public JWK is given a kid of its own.
KidDrawnTwice(k) == IF k = MaxStarts THEN 1 ELSE k + 1
PublicKid(k) == k

\* get_jwks: one RSA key, or none without a signing key.
KeysOf(p) ==
    IF proc[p] = Down \/ ~proc[p].conf.signs THEN {}
    ELSE {<<PublicKid(proc[p].kid), proc[p].key>>}
-----------------------------------------------------------------------------
(* Caches on the way, as Cache-Control lets them: another client's visit   *)
(* has left an answer there, which serves until it is max-age old.         *)

\* No Vary: what a client that wants JSON was told serves those who want the JWS too.
CardVisit(w, json) ==
    /\ shelf.cardLeft = 0 /\ CardAge > 0
    /\ shelf' = [shelf EXCEPT !.card = CardOf(w, json), !.cardLeft = CardAge]
    /\ UNCHANGED <<proc, file, env, starts, gone, phase, verify, tok, jwt>>

KeysVisit(w) ==
    /\ shelf.keysLeft = 0 /\ JwksAge > 0
    /\ shelf' = [shelf EXCEPT !.keys = KeysOf(w), !.keysLeft = JwksAge]
    /\ UNCHANGED <<proc, file, env, starts, gone, phase, verify, tok, jwt>>

Less(n) == IF n = 0 THEN 0 ELSE n - 1
Older(c) == IF c.ttl = Forever THEN c ELSE [c EXCEPT !.ttl = Less(@)]

Elapse ==
    /\ tok' = Older(tok)
    /\ shelf' = [card |-> IF shelf.cardLeft > 1 THEN Older(shelf.card) ELSE NoCard,
                 cardLeft |-> Less(shelf.cardLeft),
                 keys |-> IF shelf.keysLeft > 1 THEN shelf.keys ELSE {},
                 keysLeft |-> Less(shelf.keysLeft)]
    /\ gone' = [k \in Kid |-> IF \E w \in Up : proc[w].kid = k THEN 0
                              ELSE IF gone[k] > JwksAge THEN gone[k] ELSE gone[k] + 1]
    /\ UNCHANGED <<proc, file, env, starts, phase, verify, jwt>>
-----------------------------------------------------------------------------
(* The caller: discover_card and _fetch_and_verify.                        *)

Ask(v) ==
    /\ phase = "idle"
    /\ phase' = "asked" /\ verify' = v
    /\ UNCHANGED <<proc, file, env, starts, gone, shelf, tok, jwt>>

\* The caller asks for JSON alone when it does not mean to verify.
Served == IF shelf.cardLeft > 0 THEN {shelf.card} ELSE {CardOf(w, ~verify) : w \in Up}

\* _resolve_public_jwk, before its request: the keys must be at the caller's origin.
\* Faulty variant: without the comparison of the hosts.
AnyHost(c) == TRUE
SameHost(c) == c.jwks # "other"

\* The card arrives: taken as it is, or refused, or its keys are asked for.
CardArrives ==
    /\ phase = "asked"
    /\ \E c \in Served :
          \/ ~verify /\ phase' = "accepted" /\ tok' = c
          \/ verify /\ c.signed /\ SameHost(c) /\ phase' = "card" /\ tok' = c
          \/ verify /\ ~(c.signed /\ SameHost(c)) /\ phase' = "refused" /\ UNCHANGED tok
    /\ verify' = TRUE
    /\ UNCHANGED <<proc, file, env, starts, gone, shelf, jwt>>

KeysAt ==
    CASE tok.jwks = "prefixed" -> {{}}
      [] tok.jwks = "other" -> {KeysOf(Other)}
      [] tok.jwks \in {"own", "none"} ->
            IF shelf.keysLeft > 0 THEN {shelf.keys} ELSE {KeysOf(w) : w \in Up}

\* Faulty variant: verify_exp left out.
ExpiryIgnored(c) == FALSE
Expired(c) == c.ttl = 0

\* The keys arrive: one with the card's kid, which its signature agrees with; the
\* card has not expired meanwhile; its endpoint is https.
KeysArrive ==
    /\ phase = "card"
    /\ \E keys \in KeysAt :
          LET good == <<tok.kid, tok.key>> \in keys /\ ~Expired(tok) /\ tok.https IN
          /\ phase' = IF good THEN "accepted" ELSE "refused"
          /\ tok' = IF good THEN tok ELSE NoCard
    /\ UNCHANGED <<proc, file, env, starts, gone, shelf, verify, jwt>>

\* A request is lost, times out, meets the limiter or an error page.
Fail ==
    /\ phase \in {"asked", "card", "posted"}
    /\ phase' = "failed" /\ tok' = NoCard /\ verify' = TRUE /\ jwt' = NoSecret
    /\ UNCHANGED <<proc, file, env, starts, gone, shelf>>

\* jwt_signing_key at the caller; without a secret it raises.  (Of the card only the
\* origin of its endpoint matters from here on.)
\* Faulty variant: it signs with nothing.
SignsAnyway(secret) == "posted"
Signed(secret) == IF secret = NoSecret THEN "refused" ELSE "posted"
Mint ==
    /\ phase = "accepted" /\ proc[Caller] # Down
    /\ jwt' = proc[Caller].secret /\ tok' = [NoCard EXCEPT !.jwks = tok.jwks]
    /\ phase' = Signed(jwt')
    /\ UNCHANGED <<proc, file, env, starts, gone, shelf, verify>>

\* post_a2a: allow-list, algorithm and secret of whichever process answers.
Deliver ==
    /\ phase = "posted"
    /\ \E w \in IF tok.jwks = "other" THEN {Other} ELSE Up :
          phase' = IF proc[w].conf.auth = "trusted" /\ proc[w].secret = jwt
                THEN "admitted" ELSE "refused"
    /\ tok' = NoCard /\ jwt' = NoSecret
    /\ UNCHANGED <<proc, file, env, starts, gone, shelf, verify>>

\* The application tries again, or discovers the peer anew.
Again ==
    /\ phase \in {"refused", "failed", "admitted"}
    /\ phase' = "idle"
    /\ UNCHANGED <<proc, file, env, starts, gone, shelf, verify, tok, jwt>>

\* At first the caller's and the other origin's processes run.
DiscoveryInit ==
    /\ env \in Secret \cup {NoSecret} /\ starts = 2
    /\ file = [p \in Process |-> 0]
    /\ \E c \in Setup[Caller], d \in Setup[Other] :
          proc = [p \in Process |->
                    CASE p = Caller -> [kid |-> 1, key |-> 1, conf |-> c, secret |-> SecretOf(1, c)]
                      [] p = Other -> [kid |-> 2, key |-> 2, conf |-> d, secret |-> SecretOf(2, d)]
                      [] OTHER -> Down]
    /\ gone = [k \in Kid |-> JwksAge + 1]
    /\ shelf = Empty
    /\ phase = "idle" /\ verify = TRUE /\ tok = NoCard /\ jwt = NoSecret

DiscoveryNext ==
    \/ \E p \in Process : \E conf \in Setup[p] : Start(p, conf)
    \/ \E w \in Up : Stop(w) \/ KeysVisit(w) \/ \E json \in BOOLEAN : CardVisit(w, json)
    \/ \E v \in BOOLEAN : Ask(v)
    \/ Rotate \/ Elapse \/ CardArrives \/ KeysArrive \/ Fail \/ Mint \/ Deliver \/ Again

DiscoverySpec == DiscoveryInit /\ [][DiscoveryNext]_discoveryVars
FairDiscoverySpec ==
    /\ DiscoverySpec
    /\ WF_discoveryVars(Elapse)
    /\ WF_discoveryVars(Again \/ (\E v \in BOOLEAN : Ask(v)) \/ CardArrives \/ KeysArrive \/ Mint \/ Deliver)
-----------------------------------------------------------------------------
(* Properties.                                                             *)

\* A card accepted with verification was signed by a process of the origin that was
\* asked, one that served it no longer ago than a JWKS may be cached; and it has not
\* expired, whatever happened between the two requests.
AcceptedIsVouched ==
    [][phase = "card" /\ phase' = "accepted"
       => tok.signed /\ gone[tok.kid] <= JwksAge /\ tok.ttl > 0]_discoveryVars

\* Once one well-configured process serves the origin and shares the caller's secret,
\* requests no longer fail, and no client asks through the cache for the card's JSON form
\* any more, discovery and invocation succeed again and again, whatever restarts,
\* rotations and cached answers, JSON ones too, came before.  (Clients that go on asking
\* for JSON may keep the cache filled with what a verified discovery refuses.)
Settled ==
    /\ proc[Caller] # Down /\ proc[Caller].secret # NoSecret
    /\ \E w \in Home :
          /\ Up = {w}
          /\ proc[w].secret = proc[Caller].secret
          /\ LET conf == proc[w].conf IN
                /\ conf.signs /\ conf.https /\ ~conf.mirror
                /\ conf.jwks \in {"own", "none"} /\ conf.ttl = Forever /\ conf.auth = "trusted"

JsonUnasked == <>[][\A w \in Up : ~CardVisit(w, TRUE)]_discoveryVars

PeersMeet ==
    <>[](Settled /\ phase # "failed") /\ JsonUnasked => []<>(phase = "admitted")
=============================================================================
