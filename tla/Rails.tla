--------------------------------- MODULE Rails ---------------------------------
(***************************************************************************)
(* Which rail a payment takes.  A PaymentClient builds its adapters from   *)
(* its configuration (client.ts); a merchant answers 402 with a challenge  *)
(* of the rails its route takes (middleware.ts); fetchWithPayment picks an *)
(* adapter (detect.ts, client.ts:485), which pays and repeats the request  *)
(* with the headers of its rail; and the paywall looks at the headers in a *)
(* fixed order, whichever rail they are of.                                *)
(*                                                                         *)
(* A chain stands for its mainnet and its testnets, and the credentials of *)
(* a rail for whatever its adapter asks for.  How the XRPL, Flare and      *)
(* Initia rails move money is in XrplBuyer, FlareX402 and IusdCorridor;    *)
(* here they pay in one step.                                              *)
(***************************************************************************)
EXTENDS Naturals, Sequences, SequencesExt

CONSTANTS
    Configs,     \* configurations of a buyer
    Merchants,   \* routes of a merchant
    MaxAttempts  \* bound: how often the buyer calls fetchWithPayment()

ChainNames == {"base", "celo", "tempo", "goat", "xrpl", "stellar", "morph", "flare", "initia"}
KeyNames == {"signer", "goat", "xrpl", "stellar", "morph", "flare", "initia", "celo",
             "circle", "solana", "gho"}

ASSUME RailsAssumption ==
    /\ \A c \in Configs :
          /\ c.chains \in Seq(ChainNames) /\ c.chains # <<>>
          /\ c.keys \subseteq KeyNames /\ c.strict \in BOOLEAN
          /\ c.preference \in {"auto", "x402", "mpp"}
    /\ \A m \in Merchants :
          /\ m.takes \subseteq {"flare", "xrpl", "x402", "mpp", "morph"}
          /\ m.facilitator \in BOOLEAN /\ m.scheme \in {"exact", "eip3009"}
          /\ m.other \in [header : STRING, auth : STRING, names : STRING]
    /\ MaxAttempts \in Nat

VARIABLES
    conf,      \* the buyer's configuration
    shop,      \* the merchant's route
    rails,     \* the adapters of the client, in order
    at,        \* where the call is
    rail,      \* the adapter it uses
    sent,      \* the headers of its repeated request
    paid,      \* history: what the call has given away: <<what, chain>>
    doubted,   \* history: whether somebody outside refused a payment
    attempts   \* history: how often the buyer called

railsVars == <<conf, shop, rails, at, rail, sent, paid, doubted, attempts>>

Present(chain) == \E i \in DOMAIN conf.chains : conf.chains[i] = chain
Holds(key) == key \in conf.keys

-------------------------------------------------------------------------------
(* The constructor of PaymentClient.                                       *)

\* The EVM chains take x402, and Tempo MPP, unless the preference is the other;
\* the Celo adapter stands before all others when config.celo is given.
EquipsX402 == (Present("base") \/ Present("celo")) /\ conf.preference # "mpp"
EquipsMpp == Present("tempo") /\ conf.preference # "x402"
EquipsCelo == Present("celo") /\ Holds("celo")
EquipsGoat == Present("goat") /\ Holds("goat")

\* The others want a chain and its credentials, and a signing key for Flare.
EquipsXrpl == Present("xrpl") /\ Holds("xrpl")
EquipsStellar == Present("stellar") /\ Holds("stellar")
EquipsMorph == Present("morph") /\ Holds("morph")
EquipsFlare == Present("flare") /\ Holds("flare") /\ Holds("signer")
EquipsInitia == Present("initia")

\* In the order in which they are pushed, the Celo adapter unshifted last.
Adapters ==
    LET If(cond, s) == IF cond THEN s ELSE <<>>
    IN If(EquipsCelo, <<"celo-fee-abstracted">>) \o If(EquipsX402, <<"x402">>)
       \o If(EquipsMpp, <<"mpp">>) \o If(EquipsGoat, <<"goat">>) \o If(EquipsXrpl, <<"xrpl">>)
       \o If(EquipsStellar, <<"stellar-x402", "stellar-mpp">>)
       \o If(Holds("circle"), <<"nanopayment">>) \o If(Holds("solana"), <<"x402-solana">>)
       \o If(EquipsMorph, <<"morph-x402">>) \o If(Holds("gho"), <<"aave-gho">>)
       \o If(EquipsFlare, <<"flare-x402">>) \o If(EquipsInitia, <<"cosmos-msgsend">>)

\* In strict mode a chain without its credentials ends the constructor.
Lacking == \/ Present("xrpl") /\ ~EquipsXrpl
           \/ Present("stellar") /\ ~EquipsStellar
           \/ Present("morph") /\ ~EquipsMorph
           \/ Present("flare") /\ ~EquipsFlare

RailsInit ==
    /\ conf \in Configs /\ shop \in Merchants
    /\ rails = <<>> /\ at = "new" /\ rail = "none"
    /\ sent = {} /\ paid = {} /\ doubted = FALSE /\ attempts = 0

Construct ==
    /\ at = "new"
    /\ \/ conf.strict /\ Lacking /\ at' = "threw" /\ UNCHANGED rails
       \/ ~(conf.strict /\ Lacking) /\ at' = "ready" /\ rails' = Adapters
    /\ UNCHANGED <<conf, shop, rail, sent, paid, doubted, attempts>>

-------------------------------------------------------------------------------
(* The challenge.                                                          *)

\* The paywall offers Flare or XRPL alone; of x402 and Morph it offers Morph;
\* and MPP beside either.  Another merchant offers what it likes.
Offered ==
    CASE "flare" \in shop.takes -> [header |-> "flare", auth |-> "none", names |-> "asset"]
      [] shop.takes \cap {"flare", "xrpl"} = {"xrpl"} -> [header |-> "xrpl", auth |-> "none", names |-> "asset"]
      [] shop.takes = {} -> shop.other
      [] OTHER -> [header |-> IF "morph" \in shop.takes THEN "morph"
                              ELSE IF "x402" \in shop.takes THEN shop.other.header ELSE "none",
                   auth |-> IF "mpp" \in shop.takes THEN "tempo" ELSE "none",
                   names |-> "asset"]

\* detectProtocol(): the scheme or network of the header, then the method of
\* the authentication, then the preference.
DetectProtocol(ch) ==
    CASE ch.header = "initia" -> "cosmos-msgsend"
      [] ch.header = "xrpl" -> "xrpl"
      [] ch.header = "flare" -> "flare-x402"
      [] ch.header = "morph" -> "morph-x402"
      [] ch.header = "stellar" -> "stellar-x402"
      [] OTHER -> IF ch.auth = "stellar" THEN "stellar-mpp"
                  ELSE IF ch.header # "none" /\ ch.auth # "none"
                       THEN IF conf.preference = "mpp" THEN "mpp" ELSE "x402"
                  ELSE IF ch.header # "none" THEN "x402"
                  ELSE IF ch.auth # "none" THEN "mpp" ELSE "unknown"

\* detect() of each adapter.
Claims(r, ch) ==
    CASE r \in {"x402", "celo-fee-abstracted"} -> ch.header # "none"
      [] r = "mpp" -> ch.auth # "none"
      [] r = "goat" -> FALSE
      [] r = "stellar-mpp" -> ch.auth = "stellar"
      [] r = "nanopayment" -> ch.names = "circle"
      [] r = "aave-gho" -> ch.names = "gho"
      [] r = "flare-x402" -> ch.header \in {"none", "flare"}
      [] r = "xrpl" -> ch.header = "xrpl"
      [] r = "stellar-x402" -> ch.header = "stellar"
      [] r = "x402-solana" -> ch.header = "solana"
      [] r = "morph-x402" -> ch.header = "morph"
      [] OTHER -> ch.header = "initia"

\* The adapter of the detected protocol, or those that claim the answer, by
\* their places in the client's list, of which the first is taken.
Named(ch) == {i \in DOMAIN rails : rails[i] = DetectProtocol(ch)}
Claiming(ch) == {i \in DOMAIN rails : Claims(rails[i], ch)}
Candidates(ch) == IF Named(ch) # {} THEN Named(ch) ELSE Claiming(ch)

Earliest(i, places) == i \in places /\ \A j \in places : i <= j

Picks(places) ==
    /\ at = "ready" /\ attempts < MaxAttempts
    /\ attempts' = attempts + 1
    /\ \/ places = {} /\ at' = "threw" /\ UNCHANGED rail
       \/ at' = "paying" /\ \E i \in places : Earliest(i, places) /\ rail' = rails[i]
    /\ UNCHANGED <<conf, shop, rails, sent, paid, doubted>>

\* A slip the code avoids: the first claim wins over the detected protocol.
Bug_ChooseFirstClaim == Picks(Claiming(Offered))

\* fetchWithPayment() on a 402: it picks an adapter or throws NO_ADAPTER.
Choose == Picks(Candidates(Offered))

-------------------------------------------------------------------------------
(* pay() of each adapter.                                                  *)

\* It gives something away, sets its headers and repeats the request.
Repeats(gives, headers) ==
    /\ at' = "repeated" /\ paid' = paid \cup gives /\ sent' = headers
    /\ UNCHANGED <<conf, shop, rails, rail, doubted, attempts>>

\* X402Adapter signs an authorization for its own chain, the first EVM chain of
\* the configuration (the Celo adapter's is Celo), without a look at the
\* network of the challenge.  An asset of another network has no balance here,
\* so the balance check stops it, and an address of another kind cannot be
\* signed for; a challenge without an asset means the one of this chain.
EvmChains == {"base", "celo"}
EvmChain(chain) ==
    LET evm == {i \in DOMAIN conf.chains : conf.chains[i] \in EvmChains}
    IN IF rail = "celo-fee-abstracted" THEN chain = "celo"
       ELSE \E i \in evm : Earliest(i, evm) /\ chain = conf.chains[i]

PayX402 ==
    /\ at = "paying" /\ rail \in {"x402", "celo-fee-abstracted"}
    /\ Holds("signer")
    /\ \E chain \in EvmChains :
        /\ EvmChain(chain)
        /\ \/ Offered.header = chain
           \/ Offered.header \in EvmChains \cup {"morph", "flare"} /\ Offered.names = "none"
        /\ Repeats({<<"signed", chain>>}, {"x-payment"})

\* External: mppx fetches the url anew and pays a challenge of its method.
PayMpp ==
    /\ at = "paying" /\ rail = "mpp"
    /\ Holds("signer") /\ Offered.auth = "tempo"
    /\ Repeats({<<"moved", "tempo">>}, {"authorization"})

PayXrpl ==
    /\ at = "paying" /\ rail = "xrpl" /\ Offered.header = "xrpl"
    /\ Repeats({<<"signed", "xrpl">>}, {"payment-signature"})

PayStellarX402 ==
    /\ at = "paying" /\ rail = "stellar-x402"
    /\ Repeats({<<"signed", "stellar">>}, {"x-payment-signature"})

PayStellarMpp ==
    /\ at = "paying" /\ rail = "stellar-mpp"
    /\ Repeats({<<"signed", "stellar">>}, {"authorization"})

\* The signature of a nanopayment is made of zeros.
PayCircle ==
    /\ at = "paying" /\ rail = "nanopayment"
    /\ Repeats({}, {"x-payment-authorization"})

\* Of the two schemes of Morph, "exact" moves the money before the facilitator
\* settles, and "eip3009" lets the facilitator move it.
MorphGives == <<IF shop.scheme = "exact" THEN "moved" ELSE "signed", "morph">>

PayMorph ==
    /\ at = "paying" /\ rail = "morph-x402"
    /\ at' = "settling" /\ paid' = paid \cup {MorphGives}
    /\ UNCHANGED <<conf, shop, rails, rail, sent, doubted, attempts>>

SettleMorph ==
    /\ at = "settling"
    /\ Repeats({<<"moved", "morph">>}, {"x-payment-tx", "x-payment-network"})

\* settle() fails; what was sent stays sent.
MorphSettleFails ==
    /\ at = "settling"
    /\ at' = "threw" /\ doubted' = TRUE
    /\ UNCHANGED <<conf, shop, rails, rail, sent, paid, attempts>>

\* The Flare adapter signs for the chain of the challenge; when there is no
\* header it reads the body, which of another rail has no accepts to read.
PayFlare ==
    /\ at = "paying" /\ rail = "flare-x402"
    /\ Offered.header = "flare" \/ Offered.names = "body"
    /\ Repeats({<<"signed", "flare">>}, {"x-payment"})

PayInitia ==
    /\ at = "paying" /\ rail = "cosmos-msgsend" /\ Holds("initia")
    /\ Repeats({<<"moved", "initia">>}, {"x-payment"})

\* pay() throws before anything is given away: no signer, a short balance, a
\* challenge it cannot read, a facilitator that says no; always on Solana and
\* in the GHO adapter.
PayThrows ==
    /\ at = "paying"
    /\ at' = "threw"
    /\ UNCHANGED <<conf, shop, rails, rail, sent, paid, doubted, attempts>>

\* The buyer's code calls again.
CallAgain ==
    /\ at \in {"threw", "refused"} /\ rails # <<>> /\ attempts < MaxAttempts
    /\ at' = "ready" /\ rail' = "none" /\ sent' = {}
    /\ UNCHANGED <<conf, shop, rails, paid, doubted, attempts>>

-------------------------------------------------------------------------------
(* The paywall on the repeated request, in the order of its tests.         *)

LetIn == at' = "served" /\ UNCHANGED doubted
TurnAway == at' = "refused" /\ UNCHANGED doubted

\* A facilitator or a chain is asked, which may say no, or not answer.
Ask == \/ at' = "served" /\ UNCHANGED doubted
       \/ at' = "refused" /\ doubted' = TRUE

Takes(kind) == kind \in shop.takes

\* A Flare route reads x-payment, an XRPL route payment-signature.
FlareOrXrpl ==
    /\ shop.takes \cap {"flare", "xrpl"} # {}
    /\ IF (IF Takes("flare") THEN "x-payment" ELSE "payment-signature") \in sent THEN Ask ELSE TurnAway

X402Headers == sent \cap {"payment-signature", "x-payment-tx"} # {}

\* The x402 test comes first and takes a Morph hash too: its facilitator is
\* asked, or nobody in development.  A credential of MPP and a Morph hash pass
\* as they are.
Others ==
    /\ shop.takes \cap {"flare", "xrpl"} = {}
    /\ IF Takes("x402") /\ X402Headers THEN IF shop.facilitator THEN Ask ELSE LetIn
       ELSE IF Takes("mpp") /\ "authorization" \in sent THEN LetIn
       ELSE IF Takes("morph") /\ {"x-payment-tx", "x-payment-network"} \subseteq sent THEN LetIn
       ELSE TurnAway

\* External: another merchant serves what it likes.
Paywall ==
    /\ at = "repeated"
    /\ IF shop.takes = {} THEN Ask ELSE FlareOrXrpl \/ Others
    /\ UNCHANGED <<conf, shop, rails, rail, sent, paid, attempts>>

RailsNext ==
    \/ Construct \/ Choose \/ CallAgain \/ Paywall
    \/ PayX402 \/ PayMpp \/ PayXrpl \/ PayStellarX402 \/ PayStellarMpp \/ PayCircle
    \/ PayMorph \/ SettleMorph \/ MorphSettleFails \/ PayFlare \/ PayInitia \/ PayThrows

RailsSpec == RailsInit /\ [][RailsNext]_railsVars

-------------------------------------------------------------------------------
(* Properties.                                                             *)

AsksFor(ch) ==
    {ch.header}
    \cup (CASE ch.auth = "none" -> {} [] OTHER -> {ch.auth})
    \cup (IF ch.names = "body" THEN {"flare"} ELSE {})

\* The network of an x402 route is whatever the merchant writes there: of another
\* family it makes the buyer's adapter of that family pay, with headers of its own.
ForeignNetwork == Takes("x402") /\ ~Takes("morph") /\ shop.other.header \notin EvmChains

\* A buyer gives away what the challenge asks for and on the chain it asks for
\* it, unless the challenge names no asset, when x402 signs for its own chain, but
\* not where the client has the adapter of another protocol that was detected;
\* Goat, Solana and GHO give nothing to anybody.  The paywall serves nobody who
\* gave nothing, and whatever the order of its tests it turns nobody away, without
\* asking, who paid on a rail the route takes: nobody but the x402 buyer, whose
\* header it does not read, and whoever pays on the network of another family
\* that an x402 route names (adapters/x402.ts:155, middleware.ts:119, 151).
RailsHold ==
    /\ \A p \in paid :
          \/ p[2] \in AsksFor(Offered)
          \/ /\ Offered.names = "none" /\ p \in {"signed"} \X EvmChains
             /\ \A i \in DOMAIN rails : rails[i] = DetectProtocol(Offered) => rails[i] = "x402"
    /\ rail # "goat" /\ (rail \in {"x402-solana", "aave-gho"} => sent = {})
    /\ shop.takes # {} =>
          /\ at = "served" => paid # {}
          /\ at = "refused" /\ ~doubted => rail \in {"x402", "celo-fee-abstracted"} \/ ForeignNetwork

\* What client.ts:401 says of a Celo payment: the Celo adapter is put in front
\* "so the celo adapter wins over the generic X402Adapter pushed earlier".
CeloWins ==
    at = "paying" /\ EquipsCelo /\ Offered.header = "celo" => rail = "celo-fee-abstracted"
===============================================================================
