------------------------------ MODULE Ledger -------------------------------
(***************************************************************************)
(* The double-entry ledger: accounts found or opened by their identity,    *)
(* transactions posted once per idempotency key, corrected by reversal.    *)
(* A posting looks its key up and inserts in two statements.               *)
(***************************************************************************)
EXTENDS Pricing, FiniteSets, TLC

CONSTANTS
  Owners      \* users who let things out

VARIABLES
  accounts,   \* ledger_accounts: the identities opened
  ledger      \* ledger_transactions with their entries

ledgerVars == <<accounts, ledger>>

LEDGER_ACCOUNT_KINDS == {"provider_clearing", "owner_payable", "platform_revenue"}

NORMAL_SIDE ==
  [provider_clearing |-> "debit", owner_payable |-> "credit", platform_revenue |-> "credit"]

\* Whose an account is: one person's, or the platform's own.
ACCOUNT_HOLDER ==
  [provider_clearing |-> "platform", owner_payable |-> "user", platform_revenue |-> "platform"]

\* An account is its identity.
accountIdentityOf(kind, ownerId) ==
  [kind |-> kind, ownerId |-> IF ACCOUNT_HOLDER[kind] = "user" THEN ownerId ELSE None]

Accounts == {accountIdentityOf(k, o) : k \in LEDGER_ACCOUNT_KINDS, o \in Owners}

Entry(account, direction, amount) ==
  [account |-> account, direction |-> direction, amount |-> amount]

\* No two entries of one transaction are equal: they name different accounts.
Draft(key, kind, booking, reverses, entries) ==
  [key |-> key, kind |-> kind, booking |-> booking, reverses |-> reverses, entries |-> entries]

total(entries, direction) ==
  MapThenSumSet(LAMBDA e : e.amount, {e \in entries : e.direction = direction})

\* What a draft has to be before it reaches the store.
assertPostable(draft) ==
  /\ Cardinality(draft.entries) >= 2
  /\ \A e \in draft.entries : e.amount > 0
  /\ total(draft.entries, "debit") = total(draft.entries, "credit")

oppositeOf(direction) == IF direction = "debit" THEN "credit" ELSE "debit"

\* The same amounts on the opposite sides.
reversalOf(t, key) ==
  Draft(key, t.kind, t.booking, t.key,
        {Entry(e.account, oppositeOf(e.direction), e.amount) : e \in t.entries})

balanceOf(entries, account) ==
  LET its == {e \in entries : e.account = account}
      normal == NORMAL_SIDE[account.kind]
  IN total(its, normal) - total(its, oppositeOf(normal))

apportion(from, amount, shares) ==
  {Entry(from, "debit", amount)} \cup {Entry(s.account, "credit", s.amount) : s \in shares}

\* The capture of a hire: shares of nothing are left out.
hireCaptureEntries(settlement, ownerId) ==
  LET shares == {s \in {[account |-> accountIdentityOf("owner_payable", ownerId),
                         amount |-> settlement.ownerEarns],
                        [account |-> accountIdentityOf("platform_revenue", ownerId),
                         amount |-> settlement.platformEarns]} : s.amount # 0}
  IN apportion(accountIdentityOf("provider_clearing", ownerId), settlement.renterPays, shares)

hireCaptureKey(booking) == <<"hire-capture", booking>>

findByIdempotencyKey(key) == {t \in ledger : t.key = key}

\* accountFor: an upsert, or the row another caller's upsert made first.
accountFor(opened) == accounts' = accounts \cup opened

\* assertSameTransaction: a key that was used for something else is an error.
assertSameTransaction(draft) == findByIdempotencyKey(draft.key) \subseteq {draft}

\* Mutant: the insert does not mind a transaction reversed already.
create_again(draft) ==
  IF findByIdempotencyKey(draft.key) # {} THEN UNCHANGED ledger
  ELSE ledger' = ledger \cup {draft}

\* The insert: the unique keys refuse a second transaction under one key and a
\* second reversal of one transaction, and the caller gets the first or an error.
create(draft) ==
  IF \/ findByIdempotencyKey(draft.key) # {}
     \/ draft.reverses # None /\ \E t \in ledger : t.reverses = draft.reverses
  THEN UNCHANGED ledger
  ELSE ledger' = ledger \cup {draft}

(***************************************************************************)
(* Properties.                                                             *)
(***************************************************************************)
Entries == {[transaction |-> t.key, account |-> e.account, direction |-> e.direction,
             amount |-> e.amount] : <<t, e>> \in
              UNION {{<<t, e>> : e \in t.entries} : t \in ledger}}

\* The books balance: over every interleaving of captures, retries and
\* corrections, the money held at the provider is what is owed to owners and
\* what the platform keeps, a transaction is corrected at most once, a
\* correction undoes it on every account, and no entry is on an account nobody
\* opened.
BooksBalance ==
  /\ balanceOf(Entries, accountIdentityOf("provider_clearing", None))
       = balanceOf(Entries, accountIdentityOf("platform_revenue", None))
           + MapThenSumSet(LAMBDA o : balanceOf(Entries, accountIdentityOf("owner_payable", o)),
                           Owners)
  /\ \A t \in ledger :
       LET corrections == {u \in ledger : u.reverses = t.key} IN
       /\ Cardinality(corrections) <= 1
       /\ \A u \in corrections, a \in Accounts :
            balanceOf({e \in Entries : e.transaction \in {t.key, u.key}}, a) = 0
  /\ \A e \in Entries : e.account \in accounts

=============================================================================
