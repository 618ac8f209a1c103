--------------------------- MODULE MCCredentials ---------------------------
(* Small instances of what signs in, keeps and spends credentials: device    *)
(* codes, browsers that come back to a port and the accounts they leave, the *)
(* renewal of a plan's own credential and of one a person's tool keeps, the  *)
(* repair of their custody, the vault of keys and the grants of the spend    *)
(* lane. They share no state, so a behaviour is one of them at work while    *)
(* the others rest; `part` says which, and at what setting.                  *)
EXTENDS Naturals, FiniteSets

CONSTANTS NoTurn, Nobody, Other, None, Login, Pending, Plan, t1, t2, t3, a, b, c, x, y,
    p, q, j1, j2, j3

VARIABLES
    part,
    \* CredentialRenewal
    stored, written, head, rotated, aged, blocked, flight, standing, updates,
    planTurn,
    \* AdoptedRenewal
    store, toolFile, ages, toolLane, step, toolTurn, moved,
    \* CustodyRepair
    active, shared, home, slot, reserved, at, held, carrying, cut,
    \* KeyVault
    vaultVault, registry, damaged, aside, job, minted, up, deaths, refusals,
    \* SpendGrants
    target, row, spendVault, sealed, spendLane, rebinds, child, ask, stood,
    \* DeviceSignIn
    pending, asks, screen, waits, answers,
    \* BrowserSignIn
    port, listener, handed, browser, result, takes, unopened,
    \* AccountSignIns
    rows, folders, cred, named, chosen, item, tools, wrote, strayed, ids, refused,
    accountJob

Shared == INSTANCE CredentialRenewal WITH turn <- planTurn,
    Turns <- {t1, t2, t3}, Claude <- FALSE, MaxGen <- 3, Loses <- FALSE,
    Refuses <- FALSE
Failing == INSTANCE CredentialRenewal WITH turn <- planTurn,
    Turns <- {t1, t2}, Claude <- TRUE, MaxGen <- 3, Loses <- TRUE,
    Refuses <- TRUE
Adopted == INSTANCE AdoptedRenewal WITH lane <- toolLane, turn <- toolTurn,
    Turns <- {t1, t2, t3}, MaxAges <- 2
Repair == INSTANCE CustodyRepair WITH Accounts <- {a, b, c}
Vault == INSTANCE KeyVault WITH vault <- vaultVault, Rows <- {a, b},
    Labels <- {x, y}, Plans <- {p}, Jobs <- {j1, j2}, MaxRefs <- 3,
    MaxDeaths <- 1, MaxRefusals <- 1, Damages <- TRUE
Grants == INSTANCE SpendGrants WITH vault <- spendVault, lane <- spendLane,
    Asks <- {t1, t2}, Accounts <- {a, b}, MaxRefs <- 2, MaxChildren <- 1,
    MaxRebinds <- 1
Answering == INSTANCE SpendGrants WITH vault <- spendVault, lane <- spendLane,
    Asks <- {t1}, Accounts <- {a, b}, MaxRefs <- 2, MaxChildren <- 2,
    MaxRebinds <- 2
Device == INSTANCE DeviceSignIn WITH Plans <- {p, q}, MaxAsks <- 2,
    MaxWaits <- 2
Browser == INSTANCE BrowserSignIn WITH MaxTries <- 3, MaxTakes <- 1,
    MaxUnopened <- 1
Homes == INSTANCE AccountSignIns WITH active <- chosen, minted <- ids,
    job <- accountJob, Jobs <- {j1, j2, j3},
    Ops <- {"signIn", "browser", "restore"}, MaxIds <- 3,
    InKeychain <- FALSE, LateTools <- FALSE, OldTools <- FALSE, Refusals <- 0,
    Addresses <- {a, b}
Keychain == INSTANCE AccountSignIns WITH active <- chosen, minted <- ids,
    job <- accountJob, Jobs <- {j1, j2},
    Ops <- {"signIn", "restore", "activate"}, MaxIds <- 3, InKeychain <- TRUE,
    LateTools <- FALSE, OldTools <- FALSE, Refusals <- 1, Addresses <- {a, b}
OldTool == INSTANCE AccountSignIns WITH active <- chosen, minted <- ids,
    job <- accountJob, Jobs <- {j1, j2},
    Ops <- {"signIn", "restore"}, MaxIds <- 3, InKeychain <- TRUE,
    LateTools <- FALSE, OldTools <- TRUE, Refusals <- 1, Addresses <- {a, b}
LettingGo == INSTANCE AccountSignIns WITH active <- chosen, minted <- ids,
    job <- accountJob, Jobs <- {j1, j2, j3},
    Ops <- {"adopt", "activate", "remove"}, MaxIds <- 3, InKeychain <- TRUE,
    LateTools <- FALSE, OldTools <- FALSE, Refusals <- 1, Addresses <- {a, b}

ASSUME SettingsAssumption ==
    /\ Shared!RenewalAssumption
    /\ Failing!RenewalAssumption
    /\ Adopted!AdoptedAssumption
    /\ Repair!RepairAssumption
    /\ Vault!VaultAssumption
    /\ Grants!GrantsAssumption
    /\ Answering!GrantsAssumption
    /\ Device!DeviceAssumption
    /\ Browser!BrowserAssumption
    /\ Homes!SignInsAssumption
    /\ Keychain!SignInsAssumption
    /\ OldTool!SignInsAssumption
    /\ LettingGo!SignInsAssumption

renewalVars == <<stored, written, head, rotated, aged, blocked, flight,
    standing, updates, planTurn>>
adoptedVars == <<store, toolFile, ages, toolLane, step, toolTurn, moved>>
repairVars == <<active, shared, home, slot, reserved, at, held, carrying, cut>>
vaultVars == <<vaultVault, registry, damaged, aside, job, minted, up, deaths,
    refusals>>
spendVars == <<target, row, spendVault, sealed, spendLane, rebinds, child,
    ask, stood>>
deviceVars == <<pending, asks, screen, waits, answers>>
browserVars == <<port, listener, handed, browser, result, takes, unopened>>
accountVars == <<rows, folders, cred, named, chosen, item, tools, wrote,
    strayed, ids, refused, accountJob>>
keptVars == <<renewalVars, adoptedVars, repairVars, vaultVars, spendVars>>
signInVars == <<deviceVars, browserVars, accountVars>>
allVars == <<part, keptVars, signInVars>>

Init ==
    /\ part \in {"shared", "failing", "adopted", "repair", "vault", "grants",
          "answers", "device", "browser", "homes", "keychain", "oldTool", "lettingGo"}
    /\ CASE part = "failing" -> Failing!Init
         [] OTHER -> Shared!Init
    /\ Adopted!Init
    /\ (part # "adopted") => store = "fresh" /\ ~toolFile
    /\ Repair!Init
    /\ (part # "repair") => /\ active = None /\ shared = None
           /\ slot = [account \in {a, b, c} |-> None]
    /\ Vault!Init
    /\ CASE part = "answers" -> Answering!Init
         [] OTHER -> Grants!Init
    /\ Device!Init
    /\ Browser!Init
    /\ CASE part = "keychain" -> Keychain!Init
         [] part = "oldTool" -> OldTool!Init
         [] part = "lettingGo" -> LettingGo!Init
         [] OTHER -> Homes!Init
    /\ (part \notin {"homes", "keychain", "oldTool", "lettingGo"}) =>
           ids = 0 /\ chosen = None
    /\ (part = "homes") => ids <= 1

Next ==
    \/ /\ part = "shared" /\ Shared!Next
       /\ UNCHANGED <<part, adoptedVars, repairVars, vaultVars, spendVars, signInVars>>
    \/ /\ part = "failing" /\ Failing!Next
       /\ UNCHANGED <<part, adoptedVars, repairVars, vaultVars, spendVars, signInVars>>
    \/ /\ part = "adopted" /\ Adopted!Next
       /\ UNCHANGED <<part, renewalVars, repairVars, vaultVars, spendVars, signInVars>>
    \/ /\ part = "repair" /\ Repair!Next
       /\ UNCHANGED <<part, renewalVars, adoptedVars, vaultVars, spendVars, signInVars>>
    \/ /\ part = "vault" /\ Vault!Next
       /\ UNCHANGED <<part, renewalVars, adoptedVars, repairVars, spendVars, signInVars>>
    \/ /\ part = "grants" /\ Grants!Next
       /\ UNCHANGED <<part, renewalVars, adoptedVars, repairVars, vaultVars, signInVars>>
    \/ /\ part = "answers" /\ Answering!Next
       /\ UNCHANGED <<part, renewalVars, adoptedVars, repairVars, vaultVars, signInVars>>
    \/ /\ part = "device" /\ Device!Next
       /\ UNCHANGED <<part, keptVars, browserVars, accountVars>>
    \/ /\ part = "browser" /\ Browser!Next
       /\ UNCHANGED <<part, keptVars, deviceVars, accountVars>>
    \/ /\ part = "homes" /\ Homes!Next
       /\ UNCHANGED <<part, keptVars, deviceVars, browserVars>>
    \/ /\ part = "keychain" /\ Keychain!Next
       /\ UNCHANGED <<part, keptVars, deviceVars, browserVars>>
    \/ /\ part = "oldTool" /\ OldTool!Next
       /\ UNCHANGED <<part, keptVars, deviceVars, browserVars>>
    \/ /\ part = "lettingGo" /\ LettingGo!Next
       /\ UNCHANGED <<part, keptVars, deviceVars, browserVars>>

Fairness ==
    /\ \A t \in {t1, t2} : WF_renewalVars(part = "failing" /\ Failing!TurnSteps(t))
    /\ \A g \in 1..3 : WF_renewalVars(part = "failing" /\ Failing!Answers(g))
    /\ WF_renewalVars(part = "failing" /\ (Failing!Stored \/ Failing!StoreFails))
    /\ Adopted!Fairness
    /\ WF_spendVars(part = "answers" /\ Answering!Amends)
    /\ SF_spendVars(part = "answers" /\ Answering!Answers(t1))
    /\ Device!Fairness
    /\ \A n \in 1..3 : WF_browserVars(part = "browser" /\ Browser!Runs(n))

Spec == Init /\ [][Next]_allVars /\ Fairness

-----------------------------------------------------------------------------
(* refresh.ts, delegated-renewal.ts: a renewed credential is spent only once   *)
(* main has kept it, and the token the provider takes next is never lost, in   *)
(* whatever order turns ask, renew and are refused.                            *)
RenewalsAreKept ==
    /\ part = "shared" => Shared!RenewalsAreKept
    /\ part = "failing" => Failing!RenewalsAreKept

(* credential-custody.ts, custody-repair.ts, delegated-renewal.ts: what main   *)
(* keeps only moves forward along the rotations, no step of the repair leaves  *)
(* a credential nowhere and each account ends with its own, and a run of a     *)
(* person's tool begins only on what ages.                                     *)
CustodyIsKept ==
    /\ [][/\ part = "shared" => Shared!StoreMovesOn
          /\ part = "failing" => Failing!StoreMovesOn]_allVars
    /\ Repair!NoCredentialIsLost
    /\ []Repair!RepairTypeOK
    /\ []Repair!EachHoldsItsOwn
    /\ []Adopted!AdoptedTypeOK
    /\ Adopted!EveryRunFindsItAgeing

(* vault-order.ts, vault-reconcile.ts, accounts-store.ts: no secret is         *)
(* orphaned, dropped under its row or named twice, and no job erases the row   *)
(* of a sign-in that came between.                                             *)
VaultAndRegistryAgree == Vault!VaultAndRegistryAgree

(* engine-spend.ts, spend-grant.ts: what an attempt is granted was the node's  *)
(* own since it asked, and a key removed by its turn opens nothing.            *)
GrantsSpendTheNodesOwn ==
    /\ [](part = "grants" => Grants!GrantsTypeOK /\ Grants!GrantsAreLive)
    /\ [][part = "grants" => Grants!GrantsHeldOnly]_allVars

(* device-sign-in.ts, loopback-callback.ts: a code ends one wait, nobody is    *)
(* signed in by a page of another sign-in, and the port is let go before the   *)
(* answer.                                                                     *)
SignInsAreTheirOwn ==
    /\ Device!DeviceTypeOK /\ Device!ACodeEndsOneWait
    /\ Browser!BrowserTypeOK /\ Browser!SignedInByItsOwnPage /\ Browser!AnsweredMeansLetGo

(* accounts-store.ts, subscription-homes.ts, tool-run-sign-in.ts: sign-ins,    *)
(* restores and activations in turn leave one account per address over its own *)
(* credential, the person's own login where it was, and the chosen home one of *)
(* an account that stands, whatever is let go.                                 *)
AccountsStandOnce ==
    /\ part = "homes" => /\ Homes!SignInsTypeOK
                         /\ Homes!OneRowPerAddress
                         /\ Homes!RowsHoldTheirCredential
    /\ part = "keychain" => Keychain!RowsHoldTheirCredential
    /\ part = "oldTool" => /\ OldTool!RowsHoldTheirCredential
                           /\ OldTool!TheOwnLoginIsPutBack
    /\ part = "lettingGo" => LettingGo!TheChosenOneStands /\ LettingGo!OneRowPerAddress

(* Every turn that needs a credential is answered or fails, every turn over an *)
(* adopted plan too, every attempt that asks to spend is answered or its child *)
(* is gone, and every wait for a code and every sign-in a page was opened for   *)
(* is answered, though a person walked away.                                   *)
SomebodyWaits ==
    \/ part = "failing" /\ Failing!SomeoneWaits
    \/ Adopted!SomeoneWaits
    \/ part = "answers" /\ Answering!SomeoneWaits
    \/ Device!SomeoneWaits
    \/ Browser!SomeoneWaits

EveryAskEnds == SomebodyWaits ~> ~SomebodyWaits

=============================================================================
