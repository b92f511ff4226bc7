-------------------------------- MODULE Wallets --------------------------------
(***************************************************************************)
(* Browser wallets as the public site finds and uses them (wallet.ts,      *)
(* trade.ts): a wallet is a provider injected into the page, found because *)
(* it announced itself or because an older global names it, and a provider *)
(* lets the page see the accounts its owner has connected.                 *)
(***************************************************************************)
EXTENDS Site

CONSTANTS Provider,        \* the providers injected into the page
          AccountsOf       \* the lists of accounts a provider may show (letter
                           \* case aside, which addresses are compared without)

\* A wallet: its kind and name come from the announcement when there is one.
Wallet(provider, detail) ==
    [provider |-> provider,
     kind     |-> IF detail = None \/ detail.kind = None THEN provider.kind ELSE detail.kind,
     rdns     |-> IF detail = None THEN None ELSE detail.rdns,
     announced |-> detail # None]

\* collectLegacyProviders: the providers a global wallet lists stand for it.
LegacyProviders(globals) ==
    LET of(g) == IF g.nested # <<>> THEN ToSet(g.nested) ELSE {g.provider}
    IN  UNION {of(g) : g \in globals}

\* The first wallet of the list that is the same as w.
SameWallet(wallets, w) ==
    {i \in DOMAIN wallets : \/ wallets[i].provider = w.provider
                            \/ w.rdns # None /\ wallets[i].rdns = w.rdns}

\* mergeWalletDetails: an announcement wins, the later one over the earlier.
MergeWallet(old, new) ==
    IF new.announced THEN [new EXCEPT !.rdns = IF @ = None THEN old.rdns ELSE @] ELSE old

UpsertWallet(wallets, w) ==
    LET same == SameWallet(wallets, w) IN
    IF same = {} THEN Append(wallets, w)
    ELSE [wallets EXCEPT ![Min(same)] = MergeWallet(@, w)]

\* collectDiscoveredWallets: announcements in the order they came, then the
\* legacy providers, each with its announcement if it made one.
Discovered(details, legacy) ==
    LET detailOf(p) == LET own == {i \in DOMAIN details : details[i].provider = p}
                       IN  IF own = {} THEN None ELSE details[Max(own)]
        announced == [i \in DOMAIN details |-> Wallet(details[i].provider, details[i])]
        older     == [i \in DOMAIN legacy |-> Wallet(legacy[i], detailOf(legacy[i]))]
    IN  FoldLeft(UpsertWallet, <<>>, announced \o older)

\* resolveTradeWallet: a wallet that shows the address, of the preferred kind
\* if there is one; else the preferred kind, or the only wallet.
ResolveTradeWallet(wallets, accounts, address, preferred) ==
    LET shows == {i \in DOMAIN wallets : address \in ToSet(accounts[wallets[i].provider])}
        kind  == {i \in DOMAIN wallets : wallets[i].kind = preferred}
    IN  IF shows \cap kind # {} THEN wallets[Min(shows \cap kind)]
        ELSE IF shows # {} THEN wallets[Min(shows)]
        ELSE IF preferred # None
             THEN IF kind # {} THEN wallets[Min(kind)] ELSE None
        ELSE IF Len(wallets) = 1 THEN wallets[1] ELSE None

\* requestWalletAccount: the first account shown.
FirstAccount(accounts, provider) ==
    IF accounts[provider] = <<>> THEN None ELSE accounts[provider][1]

=============================================================================
