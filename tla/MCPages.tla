------------------------------ MODULE MCPages -------------------------------
(***************************************************************************)
(* The pages of the web client and of the admin console that do not follow *)
(* the market by the second, side by side: signing in and staying so, the  *)
(* query cache, notifications, the create-market form, search, settings,   *)
(* what the pages show before and after their reads, and the admin's       *)
(* actions, queues and lists.  They share no state here, so one of them,   *)
(* active, is at work in a behaviour and the others stay where they start. *)
(***************************************************************************)
EXTENDS Session, AuthPages, QueryCache, FormPages, Screens, AdminConsole

VARIABLE active

pagesVars == <<active, sessionVars, authVars, entranceVars, queryVars, noticeVars,
              formVars, searchVars, setVars, screenVars, adminVars, modVars,
              listsVars, decimalVars>>

(* Public, private and exact-match routes; the console's own. *)
WebPathsDef == {Home, Login, <<"portfolio">>, <<"settings", "x">>, <<"markets">>,
                <<"markets", "mine">>}
AdminPathsDef == {Home, Login, <<"users">>}

(* More rows than a page, as many as one and a half, and one. *)
HoldingDef ==
  [of \in {"users", "markets", "disputes", "actions", "logs", "summary"} |->
     [all |-> 5, open |-> 3, few |-> 1, failure |-> 1, pending |-> 1]]

PagesInit ==
  /\ active \in {"session", "auth", "entrances", "cache", "notices", "form", "search", "settings",
                  "screens", "admin", "moderation", "lists", "decimals"}
  /\ active # "auth" => /\ authPage = "login" /\ accounts = {}
                      /\ server2fa = [on |-> FALSE, secret |-> NoSecret]
  /\ active # "entrances" => entrance = "menu"
  /\ active # "cache" => /\ watched = CHOOSE k \in CacheKeys : TRUE
                       /\ user = CHOOSE u \in Users : TRUE
  /\ active # "settings" => settingsPage = "sessions" /\ canDelete = FALSE /\ has2fa = FALSE
  /\ active # "screens" => opened = "wallet"
  /\ active # "admin" => adminPage = "fees" /\ twoFa = FALSE
  /\ active # "moderation" => console = "gate"
  /\ active # "lists" => resourceA = "users" /\ screenA = "dashboard"
  /\ active # "decimals" => left = Malformed
  /\ SessionInit /\ AuthInit /\ EntrancesInit /\ CacheInit /\ NoticeInit
  /\ FormInit /\ SearchInit /\ SettingsInit /\ ScreensInit /\ AdminInit /\ ModInit
  /\ ListsInit /\ DecimalsInit

PagesNext ==
  /\ UNCHANGED active
  /\ \/ active = "session" /\ SessionNext
     \/ active = "auth" /\ AuthNext
     \/ active = "entrances" /\ EntrancesNext
     \/ active = "cache" /\ CacheNext
     \/ active = "notices" /\ NoticeNext
     \/ active = "form" /\ FormNext
     \/ active = "search" /\ SearchNext
     \/ active = "settings" /\ SettingsNext
     \/ active = "screens" /\ ScreensNext
     \/ active = "admin" /\ AdminNext
     \/ active = "moderation" /\ ModNext
     \/ active = "lists" /\ ListsNext
     \/ active = "decimals" /\ DecimalsNext
  /\ active # "session" => UNCHANGED sessionVars
  /\ active # "auth" => UNCHANGED authVars
  /\ active # "entrances" => UNCHANGED entranceVars
  /\ active # "cache" => UNCHANGED queryVars
  /\ active # "notices" => UNCHANGED noticeVars
  /\ active # "form" => UNCHANGED formVars
  /\ active # "search" => UNCHANGED searchVars
  /\ active # "settings" => UNCHANGED setVars
  /\ active # "screens" => UNCHANGED screenVars
  /\ active # "admin" => UNCHANGED adminVars
  /\ active # "moderation" => UNCHANGED modVars
  /\ active # "lists" => UNCHANGED listsVars
  /\ active # "decimals" => UNCHANGED decimalVars

PagesSpec == PagesInit /\ [][PagesNext]_pagesVars

(* The variables of the part that runs keep their types: no counter        *)
(* passes its bound and no status, phase, row or index leaves its set.     *)
PagesTypeOK ==
  /\ active = "session" => SessionTypeOK
  /\ active = "auth" => AuthTypeOK
  /\ active = "entrances" => EntrancesTypeOK
  /\ active = "cache" => CacheTypeOK
  /\ active = "notices" => NoticeTypeOK
  /\ active = "form" => FormTypeOK
  /\ active = "search" => SearchTypeOK
  /\ active = "settings" => SettingsTypeOK
  /\ active = "screens" => ScreensTypeOK
  /\ active = "admin" => AdminTypeOK
  /\ active = "moderation" => ModTypeOK
  /\ active = "lists" => ListsTypeOK

(* Tabs and proxies that share one pair of cookies and rotate it at the    *)
(* same time leave a session the server takes, nobody waits for a rotation *)
(* that is not under way, and a refusal is met once.  (refreshSession,     *)
(* refreshSuppressed, validateSessionCookies)                              *)
SessionSurvives ==
  active = "session" => RotationKeepsSession /\ WaitersHaveARefresh /\ DeadEndWalkedOnce

(* Signing in, signing up, resetting and setting up a second factor: every *)
(* code, token and secret belongs to the address or account it is shown    *)
(* for, whatever was pressed while an answer was under way, and the        *)
(* redirects of the proxies end at a page this session may see.            *)
(* (handleVerifyOtp, SignupForm, TwoFactorPageClient, proxy)               *)
SignInBelongs ==
  /\ active = "auth" =>
       /\ ChallengeIsNotSession /\ TotpForThisAddress /\ OtpStepHasAccount
       /\ ShownSecretIsServers /\ CodeShownIsSubmitted /\ StatusTold
  /\ active = "entrances" =>
       RedirectsEnd /\ PrivateIsGuarded /\ LoginKeepsTarget /\ ResetSendsShown

(* Once reads and writes have landed the screens say what the server has:  *)
(* no cached read survives a write that changed it or a sign-out, no rows  *)
(* that are held are denied, no failure is drawn as an empty list and no   *)
(* skeleton stays without a read.  (queryKeys, AuthProvider,               *)
(* notification-bell, wallet-balance, AdminDisputesClient)                 *)
ScreensFollowServer ==
  /\ PagesTypeOK
  /\ active = "cache" => ScreenFollowsWrites /\ DroppedStaysDropped
  /\ active = "notices" => UnreadIsListed /\ CachedReadIsTrue
  /\ active = "settings" => SettingsShowServer
  /\ active = "admin" => QueueFollowsRulings
  /\ active = "moderation" => QueueDropsDecided
  /\ active = "lists" => RowsMatchInputs /\ EmptyQueueIsAnAnswer /\ FilterShowsRows
  /\ active = "screens" =>
       /\ SpinsOnlyWhileReading /\ RowsNeverDenied /\ NothingMeansNothing
       /\ WalletBlamesAuthRightly

(* What is carried out is what was confirmed: one call per prompt, a batch *)
(* of what was on screen, a reason for its own subject, a deletion asked   *)
(* for in full, a slug and a search that say what was typed, and amounts   *)
(* compared exactly.  (use-step-up, bulkApprove, RejectMarketDialog,       *)
(* AccountPageClient, slugify, decimal)                                    *)
ActionsAsConfirmed ==
  /\ active = "admin" => OneCallPerPrompt /\ CredentialsGoWithPrompt
  /\ active = "moderation" => BatchOnlySeen /\ SuccessMeansLive /\ ReasonIsForItsSubject
  /\ active = "settings" => RevokeKeepsThisDevice /\ DeletionAskedInFull
  /\ active = "form" => DerivedSlugIsValid /\ SlugFollowsOwner
  /\ active = "search" => UrlSaysWhatBoxSays
  /\ active = "decimals" => DistributesWhatIsOwed /\ TooLargeIsTooLarge /\ ArithmeticIsExact

=============================================================================
