---------------------------- MODULE AccountLink -----------------------------
(***************************************************************************)
(* A user links a broker account (email login, OAuth callback, confirm) while*)
(* the broker reports deposits of the same trader.  A link is one            *)
(* transaction in three steps: its row locks and its reads, its update of    *)
(* the trader's deposits, its bonuses and the commit.  A postback takes two: *)
(* the account's row FOR SHARE, then the deposit and the commit.  A row that *)
(* another transaction has not committed cannot be locked by a reader that   *)
(* does not see it.                                                          *)
(***************************************************************************)
EXTENDS Naturals, FiniteSets

CONSTANTS
  Users, Accounts, Posts, Deposits,
  NoUser,
  Inviter,          \* referrals: the inviter of a user, or NoUser
  Partner,          \* the accounts opened through the partner link
  Trader,           \* the account a deposit is for
  Payment,          \* the deposit a postback reports; several may report one
  Ways,             \* the ways to link: "email", "callback", "confirm"
  MaxToggles        \* bound: bonus rules switched, users blocked, accounts revoked

LinkAssumption ==
  /\ NoUser \notin Users /\ "absent" \notin Users \cup {NoUser}
  /\ Inviter \in [Users -> Users \cup {NoUser}]
  /\ \A u \in Users : Inviter[u] # u
  /\ Partner \subseteq Accounts
  /\ Trader \in [Deposits -> Accounts]
  /\ Payment \in [Posts -> Deposits]
  /\ Ways \subseteq {"email", "callback", "confirm"}
  /\ MaxToggles \in Nat

Codes == {"link_bonus", "referral_reward"}

VARIABLES
  account,          \* broker_accounts: owner and status, as committed
  linkBlocked,      \* users.status = blocked
  link,             \* the transaction of each user
  post,             \* the transaction of each postback
  deposits,         \* deposit_events.user_id: "absent", NoUser or the owner
  unseen,           \* ghost: deposits that met the window of a login (Overtaken)
  packs, rewards,   \* token_ledger bonus rows: rows of a user's pack, of a referral's reward
  rules,            \* codes with an active version
  toggles

linkVars ==
  <<account, linkBlocked, link, post, deposits, unseen, packs, rewards, rules, toggles>>

NoAccount == [owner |-> NoUser, status |-> "none"]
NoLink == [step |-> "idle", way |-> "none", account |-> "none", inviter |-> NoUser, sees |-> {}]
NoPost == [step |-> "idle", owner |-> NoUser, row |-> FALSE]

LinkInit ==
  /\ account = [a \in Accounts |-> NoAccount]
  /\ linkBlocked = {}
  /\ link = [u \in Users |-> NoLink]
  /\ post = [p \in Posts |-> NoPost]
  /\ deposits = [d \in Deposits |-> "absent"]
  /\ unseen = {}
  /\ packs = [u \in Users |-> 0]
  /\ rewards = [u \in Users |-> 0]
  /\ rules = Codes
  /\ toggles = 0

-----------------------------------------------------------------------------
(* Row locks, as the transactions in flight hold them                       *)

Linking(u) == link[u].step # "idle"
UserFree(u) == \A v \in Users : Linking(v) => v # u /\ link[v].inviter # u
LinkHolds(a) == \E u \in Users : Linking(u) /\ link[u].account = a
ShareHeld(a) == \E p \in Posts : post[p].step = "read" /\ post[p].row /\ Trader[Payment[p]] = a

\* lockReferralInviter: the inviter's row, while the referral is unpaid
InviterToLock(u) == IF Inviter[u] # NoUser /\ rewards[u] = 0 THEN Inviter[u] ELSE NoUser

\* The first half of linkBrokerAccount and confirmBrokerAccount: users, the inviter, the account.
BeginLink(u, a, way) ==
  /\ way \in Ways
  /\ UserFree(u) /\ u \notin linkBlocked
  /\ InviterToLock(u) # NoUser => UserFree(InviterToLock(u))
  /\ ~LinkHolds(a) /\ ~ShareHeld(a)
  /\ account[a].status = "none" \/ account[a].owner = u             \* broker_account_taken
  /\ way = "confirm" => account[a] = [owner |-> u, status |-> "pending"]
  /\ link' = [link EXCEPT ![u] = [step |-> "locked", way |-> way, account |-> a,
                                  inviter |-> InviterToLock(u), sees |-> {}]]
  /\ UNCHANGED <<account, linkBlocked, post, deposits, unseen, packs, rewards, rules, toggles>>

-----------------------------------------------------------------------------
(* The writes and the commit                                                *)

Activates(u) == link[u].way \in {"email", "confirm"}

\* An OAuth callback leaves what nobody confirmed waiting.
StatusAfter(u) ==
  IF ~Activates(u) /\ account[link[u].account].status \in {"none", "pending"}
  THEN "pending" ELSE "active"

Attaching(u) == Activates(u)

\* The statement of attachDepositsToAccount, or its place: the deposits committed by then.
WriteLink(u) ==
  /\ link[u].step = "locked"
  /\ link' = [link EXCEPT ![u].step = "written",
                          ![u].sees = {d \in Deposits : deposits[d] # "absent"}]
  /\ UNCHANGED <<account, linkBlocked, post, deposits, unseen, packs, rewards, rules, toggles>>

\* What the statement saw of the account's trader.
Attached(u) == {d \in link[u].sees : Attaching(u) /\ Trader[d] = link[u].account}

\* Its unowned deposits.
AttachDeposits(u) ==
  deposits' = [d \in Deposits |->
                 IF d \in Attached(u) /\ deposits[d] = NoUser THEN u ELSE deposits[d]]

\* token_ledger_link_bonus_user_idx
Packed(u) == packs[u] > 0

\* grantLinkBonus
Pack(u) ==
  packs' = IF /\ Activates(u) /\ link[u].account \in Partner
              /\ "link_bonus" \in rules /\ ~Packed(u)
           THEN [packs EXCEPT ![u] = @ + 1] ELSE packs

\* A pending account's reward is the confirm's to pay.
RewardIsDue(u) == link[u].account \in Partner /\ StatusAfter(u) = "active"

\* grantReferralReward, with what lockReferralInviter read
Reward(u) ==
  rewards' = IF /\ RewardIsDue(u) /\ link[u].inviter # NoUser
                /\ link[u].inviter \notin linkBlocked /\ "referral_reward" \in rules
             THEN [rewards EXCEPT ![u] = @ + 1] ELSE rewards

CommitLink(u) ==
  /\ link[u].step = "written"
  /\ account' = [account EXCEPT ![link[u].account] = [owner |-> u, status |-> StatusAfter(u)]]
  /\ AttachDeposits(u) /\ Pack(u) /\ Reward(u)
  /\ unseen' = unseen \ Attached(u)
  /\ link' = [link EXCEPT ![u] = NoLink]
  /\ UNCHANGED <<linkBlocked, post, rules, toggles>>

\* The transaction fails: a broken rule, a lost connection.
RollBackLink(u) ==
  /\ Linking(u)
  /\ link' = [link EXCEPT ![u] = NoLink]
  /\ UNCHANGED <<account, linkBlocked, post, deposits, unseen, packs, rewards, rules, toggles>>

-----------------------------------------------------------------------------
(* Postbacks                                                                *)

\* Mutant: the account is read without FOR SHARE.
WaitsFor_Nothing(a) == FALSE

\* FOR SHARE waits for a link that holds the row; a row not committed is not there to wait for.
WaitsFor(a) == LinkHolds(a) /\ account[a].status # "none"

\* The account's user, unless the account is pending.
OwnerSeen(a) == IF account[a].status \in {"active", "revoked"} THEN account[a].owner ELSE NoUser

\* recordPostback: the account's row
ReadAccount(p) ==
  LET a == Trader[Payment[p]] IN
  /\ post[p].step = "idle"
  /\ ~WaitsFor(a)
  /\ post' = [post EXCEPT ![p] =
                [step |-> "read", row |-> account[a].status # "none", owner |-> OwnerSeen(a)]]
  /\ UNCHANGED <<account, linkBlocked, link, deposits, unseen, packs, rewards, rules, toggles>>

\* The window: the postback found no row, and by now a link has confirmed the account, or one that
\* is about to has updated the deposits.
Overtaken(p) ==
  LET a == Trader[Payment[p]] IN
  /\ ~post[p].row
  /\ \/ account[a].status \in {"active", "revoked"}
     \/ \E u \in Users : link[u].step = "written" /\ Attaching(u) /\ link[u].account = a

\* The deposit, or the conflict with the one another postback of the payment wrote; the journal.
CommitPost(p) ==
  LET d == Payment[p] IN
  /\ post[p].step = "read"
  /\ IF deposits[d] = "absent"
     THEN /\ deposits' = [deposits EXCEPT ![d] = post[p].owner]
          /\ unseen' = IF Overtaken(p) THEN unseen \cup {d} ELSE unseen
     ELSE UNCHANGED <<deposits, unseen>>
  /\ post' = [post EXCEPT ![p].step = "done"]
  /\ UNCHANGED <<account, linkBlocked, link, packs, rewards, rules, toggles>>

\* The postback is answered with an error, or its connection is lost: the broker sends it again.
RollBackPost(p) ==
  /\ post[p].step = "read"
  /\ post' = [post EXCEPT ![p] = NoPost]
  /\ UNCHANGED <<account, linkBlocked, link, deposits, unseen, packs, rewards, rules, toggles>>

-----------------------------------------------------------------------------
(* The rest of the system                                                   *)

Toggle == toggles < MaxToggles /\ toggles' = toggles + 1

\* revokeAccount
RevokeAccount(a) ==
  /\ account[a].status = "active" /\ ~LinkHolds(a) /\ ~ShareHeld(a) /\ Toggle
  /\ account' = [account EXCEPT ![a].status = "revoked"]
  /\ UNCHANGED <<linkBlocked, link, post, deposits, unseen, packs, rewards, rules>>

\* by hand: no code writes users.status
BlockUser(u) ==
  /\ UserFree(u) /\ Toggle
  /\ linkBlocked' = IF u \in linkBlocked THEN linkBlocked \ {u} ELSE linkBlocked \cup {u}
  /\ UNCHANGED <<account, link, post, deposits, unseen, packs, rewards, rules>>

\* activateBonusRuleVersion, deactivateBonusRule
SetRule(code) ==
  /\ Toggle
  /\ rules' = IF code \in rules THEN rules \ {code} ELSE rules \cup {code}
  /\ UNCHANGED <<account, linkBlocked, link, post, deposits, unseen, packs, rewards>>

LinkNext ==
  \/ \E u \in Users, a \in Accounts, way \in Ways : BeginLink(u, a, way)
  \/ \E u \in Users : WriteLink(u) \/ CommitLink(u) \/ RollBackLink(u) \/ BlockUser(u)
  \/ \E p \in Posts : ReadAccount(p) \/ CommitPost(p) \/ RollBackPost(p)
  \/ \E a \in Accounts : RevokeAccount(a)
  \/ \E code \in Codes : SetRule(code)

LinkSpec == LinkInit /\ [][LinkNext]_linkVars

-----------------------------------------------------------------------------
\* An account in the table has an owner, a postback that found no row has none, and one link at a
\* time works on an account, whose row is free or its own (oauth-ops.ts:172-190).
LinkTypeOK ==
  /\ \A a \in Accounts : (account[a].status = "none") = (account[a].owner = NoUser)
  /\ \A p \in Posts : post[p].owner # NoUser => post[p].row
  /\ \A u \in Users : Linking(u) =>
       /\ account[link[u].account].owner \in {NoUser, u}
       /\ \A v \in Users \ {u} : Linking(v) => link[v].account # link[u].account
  /\ packs \in [Users -> Nat] /\ rewards \in [Users -> Nat]

\* A deposit of an account that was confirmed has its owner, one that came before its first link
\* included.  The one exception is a postback that found no row and commits after the confirming link
\* of that account has updated the deposits, until the next such link (docs/postbacks.md:172).
ConfirmedDepositHasOwner ==
  \A d \in Deposits :
    /\ account[Trader[d]].status \in {"active", "revoked"} /\ deposits[d] # "absent"
    => deposits[d] = account[Trader[d]].owner \/ (deposits[d] = NoUser /\ d \in unseen)

\* A pending account is nobody's claim to a deposit (postback-ops.ts:119-120).
PendingOwnsNothing ==
  \A d \in Deposits : account[Trader[d]].status \in {"none", "pending"}
                        => deposits[d] \in {"absent", NoUser}

\* One pack a user over all accounts and logins, one reward a referral, and neither for an account
\* nobody confirmed (link-bonus-ops.ts:14, referral-reward-ops.ts:38).
BonusesCountOnce ==
  \A u \in Users :
    /\ packs[u] <= 1 /\ rewards[u] <= 1
    /\ packs[u] + rewards[u] > 0 =>
         \E a \in Partner : account[a].owner = u /\ account[a].status \in {"active", "revoked"}

\* What holds of every link, postback and bonus, whoever of them commits first.
LinkSafe == LinkTypeOK /\ ConfirmedDepositHasOwner /\ PendingOwnsNothing /\ BonusesCountOnce

=============================================================================
