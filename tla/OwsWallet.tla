-------------------------------- MODULE OwsWallet --------------------------------
(***************************************************************************)
(* The wallet behind the EVM rails (ows/wallet.ts).  It signs with the     *)
(* driver of the Open Wallet Standard (ows/cli-driver.ts) when its SDK can *)
(* be loaded, which takes a moment, and with a configured private key      *)
(* otherwise (transactor.ts), whose account the test faucet may fund       *)
(* (faucet.ts).  Calls with a chain number wait until the driver is known; *)
(* calls with a CAIP-2 name of an EVM chain do not when there is a key.    *)
(*                                                                         *)
(* One EVM chain, on which each account has transactions in the order of   *)
(* their nonces; a second transaction of a nonce that waits is refused.    *)
(*                                                                         *)
(* The second part is the lifecycle of wallets (ows/lifecycle.ts): wrappers*)
(* around one SDK, imported once per process, and around its command line. *)
(***************************************************************************)
EXTENDS Naturals, FiniteSets

CONSTANTS
    WalletOps,  \* the calls on one wallet
    LifeCalls,  \* the calls of the lifecycle namespace
    LifeKinds   \* the methods they call

ASSUME WalletAssumption == IsFiniteSet(WalletOps)

Accounts == {"key", "driver"}
Families == {"evm", "other", "unknown"}
NumberKinds == {"address", "send", "transfer", "typed"}
CaipKinds == {"caipAddress", "caipSend"}
SendKinds == {"send", "transfer", "caipSend"}

VARIABLES
    setup,  \* whether there is a key, the SDK, an EVM account in its vault, a faucet
    driver, \* OWSWallet.driver: "loading", "yes" or "no"
    wops,   \* each call: where it is, its kind, its family, the account it
            \* uses ("none" before it is chosen) and the nonce it has read
    mined,  \* external: transactions of each account in blocks
    pool,   \* external: those that wait
    gas,    \* external: whether the key's account can pay for gas
    drips   \* history: how often the faucet paid

walletVars == <<setup, driver, wops, mined, pool, gas, drips>>

NoOp == [at |-> "idle", kind |-> "address", family |-> "evm", acct |-> "none", nonce |-> 0]

WalletTypeOK ==
    /\ setup \in [key : BOOLEAN, sdk : BOOLEAN, evm : BOOLEAN, faucet : BOOLEAN]
    /\ driver \in {"loading", "yes", "no"}
    /\ wops \in [WalletOps -> [at : {"idle", "waiting", "looking", "dripping", "counting", "sending",
                                     "receipt", "done", "threw", "nonceTaken"},
                               kind : NumberKinds \cup CaipKinds, family : Families,
                               acct : Accounts \cup {"none"}, nonce : 0..Cardinality(WalletOps)]]
    /\ mined \in [Accounts -> SUBSET WalletOps] /\ pool \in [Accounts -> SUBSET WalletOps]
    /\ gas \in BOOLEAN /\ drips \in 0..Cardinality(WalletOps)

WalletInit ==
    /\ setup \in [key : BOOLEAN, sdk : BOOLEAN, evm : BOOLEAN, faucet : BOOLEAN]
    /\ driver = "loading"
    /\ wops = [o \in WalletOps |-> NoOp]
    /\ mined = [a \in Accounts |-> {}] /\ pool = [a \in Accounts |-> {}]
    /\ gas \in BOOLEAN /\ drips = 0

chainVars == <<mined, pool, gas, drips>>

\* createOWSDriver(): the SDK is imported once, or it is not installed.
DriverReady ==
    /\ driver = "loading"
    /\ driver' = IF setup.sdk THEN "yes" ELSE "no"
    /\ UNCHANGED <<setup, wops, chainVars>>

-------------------------------------------------------------------------------
(* Which account a call uses.                                              *)

\* Where a call goes that has its account: a send looks after its gas if it is
\* an ERC-20 transfer of the key with a faucet, and reads its nonce.
Onward(kind, acct) ==
    CASE kind \notin SendKinds -> "done"
      [] kind = "transfer" /\ acct = "key" /\ setup.faucet -> "looking"
      [] kind = "caipSend" /\ acct = "driver" -> "sending"
      [] OTHER -> "counting"

\* A namespace OWS does not know throws at once; the key serves an EVM chain as
\* long as no driver is there.
StartCaip(o, kind, family) ==
    /\ wops[o].at = "idle" /\ kind \in CaipKinds
    /\ LET early == family = "evm" /\ setup.key /\ driver # "yes"
       IN wops' = [wops EXCEPT ![o] =
             [NoOp EXCEPT !.kind = kind, !.family = family,
                          !.acct = IF early THEN "key" ELSE "none",
                          !.at = IF family = "unknown" THEN "threw"
                                 ELSE IF early THEN Onward(kind, "key") ELSE "waiting"]]
    /\ UNCHANGED <<setup, driver, chainVars>>

StartNumber(o, kind) ==
    /\ wops[o].at = "idle" /\ kind \in NumberKinds
    /\ wops' = [wops EXCEPT ![o] = [NoOp EXCEPT !.kind = kind, !.at = "waiting"]]
    /\ UNCHANGED <<setup, driver, chainVars>>

\* Typed data is for the key whether or not there is a driver, another family
\* for the driver alone.
Account(kind) ==
    IF kind # "typed" /\ driver = "yes" THEN "driver"
    ELSE IF kind \in {"typed"} \cup NumberKinds /\ setup.key THEN "key" ELSE "none"

\* A slip the code avoids: the account is chosen before the driver is known.
Bug_ResumeAtOnce(o) ==
    /\ wops[o].at = "waiting"
    /\ LET acct == Account(wops[o].kind)
       IN wops' = [wops EXCEPT ![o].acct = acct,
                               ![o].at = IF acct = "none" THEN "threw" ELSE Onward(wops[o].kind, acct)]
    /\ UNCHANGED <<setup, driver, chainVars>>

\* The driver throws for a CAIP-2 name its vault has no account of.
Resume(o) ==
    /\ wops[o].at = "waiting" /\ driver # "loading"
    /\ LET acct == Account(wops[o].kind)
           missing == wops[o].kind = "caipAddress" /\ wops[o].family = "evm" /\ ~setup.evm
       IN wops' = [wops EXCEPT ![o].acct = acct,
                               ![o].at = IF acct = "none" \/ (acct = "driver" /\ missing) THEN "threw"
                                         ELSE Onward(wops[o].kind, acct)]
    /\ UNCHANGED <<setup, driver, chainVars>>

-------------------------------------------------------------------------------
(* Sending.                                                                *)

Goes(o, at) == wops' = [wops EXCEPT ![o].at = at]

\* ensureFunded(): the balance is read, and a drip is sent and waited for.
LookAtGas(o) ==
    /\ wops[o].at = "looking"
    /\ Goes(o, IF gas THEN "counting" ELSE "dripping")
    /\ UNCHANGED <<setup, driver, chainVars>>

Drip(o) ==
    /\ wops[o].at = "dripping"
    /\ \/ gas' = TRUE /\ drips' = drips + 1 /\ Goes(o, "counting")
       \/ Goes(o, "threw") /\ UNCHANGED <<gas, drips>>
    /\ UNCHANGED <<setup, driver, mined, pool>>

\* The driver counts the transactions in blocks, viem those that wait too.
Count(o) ==
    /\ wops[o].at = "counting"
    /\ LET a == wops[o].acct
           n == Cardinality(mined[a]) + (IF a = "key" THEN Cardinality(pool[a]) ELSE 0)
       IN wops' = [wops EXCEPT ![o].nonce = n, ![o].at = "sending"]
    /\ UNCHANGED <<setup, driver, chainVars>>

\* External: the SDK finds a nonce of its own for a CAIP-2 payload.
Nonce(o) ==
    IF wops[o].kind = "caipSend" /\ wops[o].acct = "driver"
    THEN Cardinality(mined["driver"]) + Cardinality(pool["driver"]) ELSE wops[o].nonce

Taken(o) == \E p \in mined[wops[o].acct] \cup pool[wops[o].acct] : wops[p].nonce = Nonce(o)

\* The driver answers with a hash, viem waits for the receipt; the answer may
\* be lost on the way.
Submit(o) ==
    /\ wops[o].at = "sending" /\ ~Taken(o)
    /\ wops[o].acct = "driver" => setup.evm \/ wops[o].family # "evm"
    /\ wops[o].acct = "key" => gas
    /\ pool' = [pool EXCEPT ![wops[o].acct] = @ \cup {o}]
    /\ \E at \in {IF wops[o].acct = "driver" THEN "done" ELSE "receipt", "threw"} :
          wops' = [wops EXCEPT ![o].nonce = Nonce(o), ![o].at = at]
    /\ UNCHANGED <<setup, driver, mined, gas, drips>>

SubmitFails(o) ==
    /\ wops[o].at = "sending"
    /\ Goes(o, IF Taken(o) THEN "nonceTaken" ELSE "threw")
    /\ UNCHANGED <<setup, driver, chainVars>>

\* External: the next transaction of an account is put in a block, where it
\* may revert.
PutInBlock(o) ==
    \E a \in Accounts :
        /\ o \in pool[a] /\ wops[o].nonce = Cardinality(mined[a])
        /\ mined' = [mined EXCEPT ![a] = @ \cup {o}] /\ pool' = [pool EXCEPT ![a] = @ \ {o}]
        /\ UNCHANGED <<setup, driver, wops, gas, drips>>

\* The status of the receipt is not looked at; the wait for it may end first.
AwaitReceipt(o) ==
    /\ wops[o].at = "receipt"
    /\ \/ o \in mined["key"] /\ Goes(o, "done")
       \/ Goes(o, "threw")
    /\ UNCHANGED <<setup, driver, chainVars>>

WalletNext ==
    \/ DriverReady
    \/ \E o \in WalletOps :
        \/ \E kind \in CaipKinds, family \in Families : StartCaip(o, kind, family)
        \/ \E kind \in NumberKinds : StartNumber(o, kind)
        \/ Resume(o) \/ LookAtGas(o) \/ Drip(o) \/ Count(o)
        \/ Submit(o) \/ SubmitFails(o) \/ PutInBlock(o) \/ AwaitReceipt(o)

WalletSpec == WalletInit /\ [][WalletNext]_walletVars

-------------------------------------------------------------------------------
\* A hash that was answered is of a transaction that waits or is in a block,
\* in a block if the key sent it.  Every call uses the one account the wallet
\* has settled on, but for two: typed data, which an adapter may sign with the
\* key for the address of the driver (morph-x402.ts:136, 154), and CAIP-2 calls
\* made with a key before the driver was known.  A call is only refused its
\* nonce when another used it, and the faucet pays again only to calls that
\* looked together.
WalletHolds ==
    \A o \in WalletOps :
        /\ wops[o].at = "done" /\ wops[o].kind \in SendKinds =>
              o \in mined[wops[o].acct] \cup (IF wops[o].acct = "driver" THEN pool["driver"] ELSE {})
        /\ wops[o].acct = "key" =>
              /\ wops[o].family = "evm" /\ setup.key
              /\ wops[o].kind \in NumberKinds \ {"typed"} => driver = "no"
        /\ wops[o].acct = "driver" => driver = "yes" /\ wops[o].kind # "typed"
        /\ wops[o].at = "nonceTaken" =>
              \E p \in mined[wops[o].acct] \cup pool[wops[o].acct] :
                  p # o /\ wops[p].nonce = wops[o].nonce
        /\ drips > 0 /\ wops[o].at = "looking" => gas
-------------------------------------------------------------------------------
(* The lifecycle.                                                          *)

\* Methods of the SDK, and those that end at the command line.
CreateKinds == {"createWallet", "importMnemonic", "importPrivateKey", "importKeystore",
                "importWif", "importSolanaKeypair", "importSuiKeystore"}
ExportKinds == {"exportMnemonic", "exportKeystore", "exportRaw"}
ManageKinds == {"recover", "lock", "unlock", "rotate", "discover", "delete"}
PolicyKinds == {"createPolicy", "listPolicies", "getPolicy", "deletePolicy",
                "createApiKey", "listApiKeys", "revokeApiKey"}
MnemonicKinds == {"generateMnemonic", "deriveAddress"}
VaultKinds == {"backupVault", "restoreVault"}

ConfirmedKinds == {"exportMnemonic", "exportRaw", "delete"}

ASSUME LifeAssumption ==
    LifeKinds \subseteq CreateKinds \cup ExportKinds \cup ManageKinds \cup PolicyKinds
                        \cup MnemonicKinds \cup VaultKinds \cup {"configureAutoBackup"}

VARIABLES
    tools,  \* external: what is installed ("full" has backup and restore), and
            \* whether the environment holds the passphrase
    sdk,    \* sdkPromise: "unasked", "importing" or what it has resolved to
    life    \* each call: where it is, its method, whether it is given what is
            \* optional (a confirmation, the name of the passphrase), its answer,
            \* and what was done for it

lifeVars == <<tools, sdk, life>>

NewCall == [at |-> "idle", kind |-> "none", given |-> FALSE,
            answer |-> "none", did |-> "nothing"]

LifeInit ==
    /\ tools \in [sdk : {"none", "plain", "full"}, cli : BOOLEAN, passphrase : BOOLEAN]
    /\ sdk = "unasked"
    /\ life = [l \in LifeCalls |-> NewCall]

Ends(l, answer, did) ==
    life' = [life EXCEPT ![l].at = "ended", ![l].answer = answer, ![l].did = did]

Unconfirmed(kind, given) ==
    \/ kind \in ConfirmedKinds /\ ~given
    \/ kind = "backupVault" /\ ~tools.passphrase

\* The first call that needs the SDK imports it for all.
StartLife(l, kind, given) ==
    LET shell == kind = "configureAutoBackup"
        refused == Unconfirmed(kind, given)
    IN  /\ life[l].at = "idle"
        /\ life' = [life EXCEPT ![l] =
              [NewCall EXCEPT !.kind = kind, !.given = given,
                              !.at = IF refused THEN "ended" ELSE IF shell THEN "shell" ELSE "loading",
                              !.answer = IF refused THEN "OWS_CONFIRM_REQUIRED" ELSE "none"]]
        /\ sdk' = IF sdk = "unasked" /\ ~refused /\ ~shell THEN "importing" ELSE sdk
        /\ UNCHANGED tools

ImportEnds ==
    /\ sdk = "importing"
    /\ sdk' = tools.sdk
    /\ UNCHANGED <<tools, life>>

\* Backup and restore take the SDK only with what it needs for them.
SdkServes(l) ==
    CASE life[l].kind = "backupVault" -> sdk = "full"
      [] life[l].kind = "restoreVault" -> sdk = "full" /\ life[l].given /\ tools.passphrase
      [] OTHER -> sdk # "none"

Loaded(l) ==
    /\ life[l].at = "loading" /\ sdk \notin {"unasked", "importing"}
    /\ IF SdkServes(l) THEN life' = [life EXCEPT ![l].at = "sdk"]
       ELSE IF life[l].kind \in VaultKinds THEN life' = [life EXCEPT ![l].at = "shell"]
       ELSE Ends(l, "OWS_SDK_NOT_INSTALLED", "nothing")
    /\ UNCHANGED <<tools, sdk>>

\* withSdk() reads the message of an error for "not found" before "policy";
\* backup and restore are called outside of it.
SdkError(kind, words) ==
    IF kind \in VaultKinds THEN "untyped"
    ELSE IF "not found" \in words THEN "OWS_WALLET_NOT_FOUND"
    ELSE IF "policy" \in words THEN "OWS_POLICY_VIOLATION"
    ELSE "OWS_FAMILY_PARTIAL"

SdkEnds(l) ==
    /\ life[l].at = "sdk"
    /\ \/ Ends(l, "ok", "sdk")
       \/ \E words \in SUBSET {"not found", "policy"}, did \in {"sdk", "nothing"} :
             Ends(l, SdkError(life[l].kind, words), did)
    /\ UNCHANGED <<tools, sdk>>

\* withCli(): a missing binary and a "not found" on its stderr read the same.
ShellEnds(l) ==
    /\ life[l].at = "shell"
    /\ IF ~tools.cli THEN Ends(l, "OWS_CLI_NOT_AVAILABLE", "nothing")
       ELSE \/ Ends(l, "ok", "cli")
            \/ \E answer \in {"OWS_CLI_NOT_AVAILABLE", "OWS_FAMILY_PARTIAL"},
                  did \in {"cli", "nothing"} : Ends(l, answer, did)
    /\ UNCHANGED <<tools, sdk>>

\* External: what is missing is installed while the process runs.
Install ==
    /\ \/ tools.sdk = "none" /\ tools' = [tools EXCEPT !.sdk = "full"]
       \/ ~tools.cli /\ tools' = [tools EXCEPT !.cli = TRUE]
    /\ UNCHANGED <<sdk, life>>

LifeNext ==
    \/ ImportEnds \/ Install
    \/ \E l \in LifeCalls :
        \/ \E kind \in LifeKinds, given \in BOOLEAN : StartLife(l, kind, given)
        \/ Loaded(l) \/ SdkEnds(l) \/ ShellEnds(l)

\* All calls of a process agree on whether there is an SDK, whenever it was
\* installed: none is told that there is none while another is served by it
\* (lifecycle.ts:44-54).  A wallet is backed up once, by the command line only
\* when the SDK cannot.  What reveals a secret or deletes a wallet was confirmed,
\* what is refused up front leaves nothing behind, and an error without a code
\* comes from backup and restore alone.
LifecycleHolds ==
    \A l \in LifeCalls : life[l].at = "ended" =>
        /\ life[l].answer = "OWS_SDK_NOT_INSTALLED" =>
              \A m \in LifeCalls : life[m].at # "sdk" /\ life[m].did # "sdk"
        /\ life[l].did = "cli" /\ life[l].kind \in VaultKinds => ~SdkServes(l)
        /\ life[l].kind \in ConfirmedKinds /\ life[l].did # "nothing" => life[l].given
        /\ life[l].answer \in {"OWS_CONFIRM_REQUIRED", "OWS_SDK_NOT_INSTALLED"} =>
              life[l].did = "nothing"
        /\ life[l].answer = "untyped" => life[l].kind \in VaultKinds
===============================================================================
