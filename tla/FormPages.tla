----------------------------- MODULE FormPages ------------------------------
(***************************************************************************)
(* The forms of the web app: the proposal of a market, the search box, and *)
(* the settings of an account. They share no state.                        *)
(***************************************************************************)
EXTENDS Naturals, Sequences, FiniteSets

-----------------------------------------------------------------------------
(* Proposing a market (components/markets/create-market-form.tsx): the slug     *)
(* derived from the question until it is edited by hand, the outcome list, and  *)
(* the submit the schema lets through.  A text is a sequence of character       *)
(* classes: "a" a lower-case letter or digit, "A" an upper-case letter, "e" an  *)
(* accented letter, "." punctuation or a blank, "-" a hyphen.  An outcome name  *)
(* is 0 when blank and a number otherwise (names compared without case).        *)

CONSTANTS MaxText,       \* bound: characters of a question
          SlugLimit,     \* the slice length (255)
          MinSlug,       \* the schema's minimum slug length (3)
          OutcomeNames,  \* names a user may type, 0 the blank one
          MaxOutcomes,   \* the most outcomes the form adds (50)
          MaxInputs      \* bound: edits of the form

VARIABLES question,      \* the question typed so far
          slug, slugTouched,
          handTyped,     \* ghost: the slug last typed by hand
          outcomeMode, outcomes,
          submitting,    \* createMarket.isPending
          sentMarket,    \* the payloads sent: [slug, outcomes]
          edits

formVars == <<question, slug, slugTouched, handTyped, outcomeMode, outcomes,
              submitting, sentMarket, edits>>

Chars == {"a", "A", "e", ".", "-"}
TextsOf(n) == UNION {[1..k -> Chars] : k \in 0..n}
HandSlugs == {<<"a">>, <<"a", "a", "a">>, <<"a", "-", "-">>, <<"a", "-", "a">>}

-----------------------------------------------------------------------------
\* The combining marks dropped, lower case: every letter is "a".  A run of
\* anything else becomes one hyphen.
IsAlnum(c) == c \in {"a", "A", "e"}

collapse(q) ==
  LET upTo[n \in 0..Len(q)] ==
        IF n = 0 THEN <<>>
        ELSE LET s == upTo[n - 1] IN
             IF IsAlnum(q[n]) THEN Append(s, "a")
             ELSE IF s # <<>> /\ s[Len(s)] = "-" THEN s
             ELSE Append(s, "-")
  IN upTo[Len(q)]

\* Runs are single hyphens by now.
trimStart(s) == IF s # <<>> /\ s[1] = "-" THEN Tail(s) ELSE s
trimEnd(s) == IF s # <<>> /\ s[Len(s)] = "-" THEN SubSeq(s, 1, Len(s) - 1) ELSE s

slice(s) == IF Len(s) <= SlugLimit THEN s ELSE SubSeq(s, 1, SlugLimit)

slugify(q) == trimEnd(slice(trimEnd(trimStart(collapse(q)))))

\* SLUG_PATTERN: runs of letters and digits joined by single hyphens.
SlugPattern(s) ==
  /\ s # <<>>
  /\ \A i \in DOMAIN s : s[i] \in {"a", "-"}
  /\ \A i \in DOMAIN s : s[i] = "-" => /\ i > 1 /\ i < Len(s)
                                       /\ s[i - 1] = "a" /\ s[i + 1] = "a"

\* The schema's conditions that a submit can fail on here.
createMarketSchema ==
  /\ question # <<>>
  /\ Len(slug) >= MinSlug /\ SlugPattern(slug)
  /\ \A i \in DOMAIN outcomes : outcomes[i] # 0     \* in either mode
  /\ Len(outcomes) <= MaxOutcomes

-----------------------------------------------------------------------------
FormInit ==
  /\ question = <<>> /\ slug = <<>> /\ slugTouched = FALSE /\ handTyped = <<>>
  /\ outcomeMode = "yes_no" /\ outcomes = <<1, 2>>       \* Yes, No
  /\ submitting = FALSE /\ sentMarket = {} /\ edits = 0

Edited == edits < MaxInputs /\ edits' = edits + 1

\* The question's onChange.
typeQuestion(q) ==
  /\ Edited
  /\ question' = q
  /\ slug' = IF slugTouched THEN slug ELSE slugify(q)
  /\ UNCHANGED <<slugTouched, handTyped, outcomeMode, outcomes, submitting, sentMarket>>

\* The slug's onChange.
typeSlug(s) ==
  /\ Edited
  /\ slug' = s /\ handTyped' = s /\ slugTouched' = TRUE
  /\ UNCHANGED <<question, outcomeMode, outcomes, submitting, sentMarket>>

setOutcomeMode(m) ==
  /\ Edited
  /\ outcomeMode' = m
  /\ UNCHANGED <<question, slug, slugTouched, handTyped, outcomes, submitting, sentMarket>>

nameOutcome(i, name) ==
  /\ Edited /\ outcomeMode = "custom"
  /\ outcomes' = [outcomes EXCEPT ![i] = name]
  /\ UNCHANGED <<question, slug, slugTouched, handTyped, outcomeMode, submitting, sentMarket>>

Without(s, i) == SubSeq(s, 1, i - 1) \o SubSeq(s, i + 1, Len(s))

\* Disabled at two outcomes.
removeOutcome(i) ==
  /\ Edited /\ outcomeMode = "custom" /\ Len(outcomes) > 2
  /\ outcomes' = Without(outcomes, i)
  /\ UNCHANGED <<question, slug, slugTouched, handTyped, outcomeMode, submitting, sentMarket>>

\* Disabled at the ceiling.
addOutcome ==
  /\ Edited /\ outcomeMode = "custom" /\ Len(outcomes) < MaxOutcomes
  /\ outcomes' = Append(outcomes, 0)
  /\ UNCHANGED <<question, slug, slugTouched, handTyped, outcomeMode, submitting, sentMarket>>

\* The outcome list of the payload: the typed one, or the pair.
payloadOutcomes == IF outcomeMode = "custom" THEN outcomes ELSE <<1, 2>>

\* handleSubmit(onSubmit): validated, then sent; the button is disabled while
\* the mutation is pending.
onSubmitMarket ==
  /\ ~submitting /\ createMarketSchema
  /\ submitting' = TRUE
  /\ sentMarket' = sentMarket \cup {[slug |-> slug, outcomes |-> payloadOutcomes]}
  /\ UNCHANGED <<question, slug, slugTouched, handTyped, outcomeMode, outcomes, edits>>

\* An error leaves the form as it is; success leaves the page.
submitRefused ==
  /\ submitting /\ submitting' = FALSE
  /\ UNCHANGED <<question, slug, slugTouched, handTyped, outcomeMode, outcomes,
                 sentMarket, edits>>

FormNext ==
  \/ \E q \in TextsOf(MaxText) : typeQuestion(q)
  \/ \E s \in HandSlugs : typeSlug(s)
  \/ \E m \in {"yes_no", "custom"} : setOutcomeMode(m)
  \/ \E i \in DOMAIN outcomes : \/ removeOutcome(i)
                                \/ \E name \in OutcomeNames : nameOutcome(i, name)
  \/ addOutcome \/ onSubmitMarket \/ submitRefused

FormSpec == FormInit /\ [][FormNext]_formVars

-----------------------------------------------------------------------------
FormTypeOK ==
  /\ question \in TextsOf(MaxText)
  /\ \A i \in DOMAIN slug : slug[i] \in Chars
  /\ {slugTouched, submitting} \subseteq BOOLEAN
  /\ outcomeMode \in {"yes_no", "custom"}
  /\ Len(outcomes) \in 0..MaxOutcomes
  /\ edits \in 0..MaxInputs

\* The slug the form derives is one its own pattern, the server's, accepts, or
\* is empty: the comment on SLUG_PATTERN promises that a derived slug is never
\* refused for its shape.  Deriving it again changes nothing.
DerivedSlugIsValid ==
  LET s == slugify(question) IN
  (s = <<>> \/ SlugPattern(s)) /\ slugify(s) = s /\ Len(s) <= SlugLimit

\* The slug is the user's once they edited it, and the question's before that.
SlugFollowsOwner == slug = IF slugTouched THEN handTyped ELSE slugify(question)

\* Refuted: a market is sent with outcomes that differ (comment on
\* `outcomeProblem`).
SentOutcomesDiffer ==
  \A p \in sentMarket : \A i, j \in DOMAIN p.outcomes : p.outcomes[i] = p.outcomes[j] => i = j

\* Refuted: a field that is not on screen never refuses the submit.
HiddenFieldNeverRefuses ==
  outcomeMode = "yes_no" => \A i \in DOMAIN outcomes : outcomes[i] # 0

-----------------------------------------------------------------------------
(* The header's search box (components/shared/search-input.tsx) and the command *)
(* palette (components/shared/command-palette.tsx).  The box mirrors its text   *)
(* into the URL 300 ms after the last keystroke; back and forward write the URL *)
(* into the box.  The palette lists recent choices.                             *)

CONSTANTS SearchTexts,   \* texts typed; "" the empty one
          OtherPages,    \* pages reached by links
          PaletteItems,  \* labels of the palette's items
          MaxRecent,     \* maxRecent
          MaxVisits,     \* bound: entries of the history
          MaxGestures    \* bound: what the user does

VARIABLES boxText, debounce,     \* value, and the text the timer will write
          visited, at,           \* the browser's history and the entry shown
          typedLast,             \* ghost: the box was typed in after the last navigation
          paletteOpen, paletteText, recent,
          gestures

searchVars == <<boxText, debounce, visited, at, typedLast, paletteOpen, paletteText,
                recent, gestures>>

NoTimer == [set |-> FALSE, text |-> ""]
Url(path, q) == [path |-> path, q |-> q]
Here == visited[at]

SearchInit ==
  /\ boxText = "" /\ debounce = NoTimer
  /\ visited = <<Url("/", "")>> /\ at = 1 /\ typedLast = FALSE
  /\ paletteOpen = FALSE /\ paletteText = "" /\ recent = <<>>
  /\ gestures = 0

Gesture == gestures < MaxGestures /\ gestures' = gestures + 1

\* handleChange: the text at once, the URL after the pause.
handleChange(t) ==
  /\ Gesture
  /\ boxText' = t /\ typedLast' = TRUE
  /\ debounce' = [set |-> TRUE, text |-> t]
  /\ UNCHANGED <<visited, at, paletteOpen, paletteText, recent>>

\* updateURL's timer: router.replace rewrites the entry shown.
updateURL ==
  /\ debounce.set
  /\ debounce' = NoTimer
  /\ visited' = [visited EXCEPT ![at] = Url("/", debounce.text)]
  /\ UNCHANGED <<boxText, at, typedLast, paletteOpen, paletteText, recent, gestures>>

\* handlePopstate: the box takes the text of the URL; the timer is left alone.
handlePopstate(n) ==
  /\ Gesture
  /\ n \in DOMAIN visited /\ n # at
  /\ at' = n /\ boxText' = visited[n].q /\ typedLast' = FALSE
  /\ UNCHANGED <<debounce, visited, paletteOpen, paletteText, recent>>

\* A link: the header stays mounted, and the box keeps its text.
PushUrl(path) ==
  /\ visited' = Append(SubSeq(visited, 1, at), Url(path, ""))
  /\ at' = at + 1 /\ typedLast' = FALSE

followLink(path) ==
  /\ Gesture /\ Len(visited) < MaxVisits
  /\ PushUrl(path)
  /\ UNCHANGED <<boxText, debounce, paletteOpen, paletteText, recent>>

-----------------------------------------------------------------------------
\* Ctrl+K toggles; the dialog's own close clears the text, the key does not.
toggleKey ==
  /\ Gesture
  /\ paletteOpen' = ~paletteOpen
  /\ UNCHANGED <<boxText, debounce, visited, at, typedLast, paletteText, recent>>

handleOpenChange(o) ==
  /\ Gesture /\ o # paletteOpen
  /\ paletteOpen' = o /\ paletteText' = IF o THEN paletteText ELSE ""
  /\ UNCHANGED <<boxText, debounce, visited, at, typedLast, recent>>

handleSearchChange(t) ==
  /\ Gesture /\ paletteOpen
  /\ paletteText' = t
  /\ UNCHANGED <<boxText, debounce, visited, at, typedLast, paletteOpen, recent>>

frontRows(s) == IF Len(s) > MaxRecent THEN SubSeq(s, 1, MaxRecent) ELSE s

recentWith(label) == frontRows(<<label>> \o SelectSeq(recent, LAMBDA r : r # label))

\* The choice goes in front of the others, the palette closes, and the item acts:
\* it navigates.
handleSelect(label) ==
  /\ Gesture /\ paletteOpen /\ Len(visited) < MaxVisits
  /\ recent' = recentWith(label)
  /\ paletteOpen' = FALSE /\ paletteText' = ""
  /\ PushUrl(label)
  /\ UNCHANGED <<boxText, debounce>>

\* A recent choice pressed: its label is searched for.
handleRecentClick(label) ==
  /\ Gesture /\ paletteOpen
  /\ \E i \in DOMAIN recent : recent[i] = label
  /\ paletteText' = label
  /\ UNCHANGED <<boxText, debounce, visited, at, typedLast, paletteOpen, recent>>

SearchNext ==
  \/ \E t \in SearchTexts : handleChange(t) \/ handleSearchChange(t)
  \/ updateURL \/ toggleKey
  \/ \E n \in DOMAIN visited : handlePopstate(n)
  \/ \E p \in OtherPages : followLink(p)
  \/ \E o \in BOOLEAN : handleOpenChange(o)
  \/ \E l \in PaletteItems : handleSelect(l) \/ handleRecentClick(l)

SearchSpec == SearchInit /\ [][SearchNext]_searchVars

-----------------------------------------------------------------------------
SearchTypeOK ==
  /\ boxText \in SearchTexts /\ debounce.text \in SearchTexts
  /\ at \in DOMAIN visited
  /\ paletteOpen \in BOOLEAN
  /\ Len(recent) <= MaxRecent
  /\ gestures \in 0..MaxGestures

\* When the user has typed since the last navigation and the pause is over, the
\* URL searches for what the box says.
UrlSaysWhatBoxSays == typedLast /\ ~debounce.set => Here = Url("/", boxText)

\* Refuted: a navigation is not undone by a keystroke made before it.
NavigationKept == debounce.set => typedLast

-----------------------------------------------------------------------------
(* The settings pages that change the account: sessions, notification           *)
(* preferences, password, account deletion, and the price-alert dialog of a     *)
(* market.  An instance is one of these pages.  Device 1 is the one in use.     *)

CONSTANTS Devices,       \* devices signed in at first, a set with 1
          MaxChanges     \* bound: requests the user makes

VARIABLES settingsPage,
          alive,         \* server: sessions not revoked
          listedSessions, sessionsRead,
          serverPref, shownPref, prefRead,   \* one preference switch
          canDelete, impactShown, impactRead, deleted,
          deleteDialog, passwordTyped, codeTyped, has2fa,
          success, rootError,                \* the password form's banners
          alertOpen, alertPrice, alertsMade, \* the alert dialog: typed price, [price]s made
          job,           \* the mutation under way
          changes, signedIn,
          switchPresses  \* ghost: presses of the switch that were carried out

setVars == <<settingsPage, alive, listedSessions, sessionsRead, serverPref,
             shownPref, prefRead, canDelete, impactShown, impactRead, deleted,
             deleteDialog, passwordTyped, codeTyped, has2fa, success, rootError,
             alertOpen, alertPrice, alertsMade, job, changes, signedIn, switchPresses>>

sessionsPart == <<alive, listedSessions, sessionsRead>>
prefPart == <<serverPref, shownPref, prefRead, switchPresses>>
deletePart == <<canDelete, impactShown, impactRead, deleted, deleteDialog,
                passwordTyped, codeTyped, has2fa>>
passwordPart == <<success, rootError>>
alertPart == <<alertOpen, alertPrice, alertsMade>>

NoJob == [kind |-> "none", arg |-> 0]
Job(k, a) == [kind |-> k, arg |-> a]

\* A read: "no", "asked" or "answer", with what it will show.
NoReread == [st |-> "no", val |-> 0]
AskAgain == [st |-> "asked", val |-> 0]

SettingsInit ==
  /\ settingsPage \in {"sessions", "preferences", "password", "delete", "alert"}
  /\ alive = Devices /\ listedSessions = Devices /\ sessionsRead = NoReread
  /\ serverPref = FALSE /\ shownPref = FALSE /\ prefRead = NoReread /\ switchPresses = 0
  /\ canDelete \in BOOLEAN /\ impactShown = canDelete /\ impactRead = NoReread
  /\ deleted = FALSE /\ deleteDialog = FALSE /\ passwordTyped = FALSE
  /\ codeTyped = FALSE /\ has2fa \in BOOLEAN
  /\ success = FALSE /\ rootError = FALSE
  /\ alertOpen = FALSE /\ alertPrice = 1 /\ alertsMade = {}
  /\ job = NoJob /\ changes = 0 /\ signedIn = TRUE

Start(k, a) ==
  /\ signedIn /\ changes < MaxChanges
  /\ changes' = changes + 1
  /\ job' = Job(k, a)
  /\ UNCHANGED <<settingsPage, signedIn>>

-----------------------------------------------------------------------------
\* SessionRow: no Revoke for the current device; disabled while one is pending.
handleRevoke(d) ==
  /\ settingsPage = "sessions" /\ job = NoJob
  /\ d \in listedSessions /\ d # 1
  /\ Start("revoke", d)
  /\ UNCHANGED <<sessionsPart, prefPart, deletePart, passwordPart, alertPart>>

\* "Revoke all other sessions", offered when more than one is listed.
handleRevokeAll ==
  /\ settingsPage = "sessions" /\ job = NoJob
  /\ Cardinality(listedSessions) > 1
  /\ Start("revokeAll", 0)
  /\ UNCHANGED <<sessionsPart, prefPart, deletePart, passwordPart, alertPart>>

\* handleToggle: the switch asks for the opposite of what it shows; every switch
\* is disabled while the mutation is pending.
handleToggle ==
  /\ settingsPage = "preferences" /\ job = NoJob
  /\ Start("toggle", IF shownPref THEN 0 ELSE 1)
  /\ UNCHANGED <<sessionsPart, prefPart, deletePart, passwordPart, alertPart>>

\* The password form: a submit takes the last banners away.
onSubmitPassword ==
  /\ settingsPage = "password" /\ job = NoJob
  /\ Start("password", 0)
  /\ success' = FALSE /\ rootError' = FALSE
  /\ UNCHANGED <<sessionsPart, prefPart, deletePart, alertPart>>

\* DeleteCard: the button is disabled while the impact shown blocks it; the
\* dialog cannot be cancelled by its button while the mutation is pending.
openDelete(o) ==
  /\ settingsPage = "delete" /\ signedIn
  /\ o # deleteDialog
  /\ o => impactShown
  /\ deleteDialog' = o
  /\ UNCHANGED <<settingsPage, sessionsPart, prefPart, canDelete, impactShown,
                 impactRead, deleted, passwordTyped, codeTyped, has2fa, passwordPart,
                 alertPart, job, changes, signedIn>>

typeCredentials ==
  /\ deleteDialog /\ ~(passwordTyped /\ codeTyped)
  /\ \/ passwordTyped' = TRUE /\ UNCHANGED codeTyped
     \/ has2fa /\ codeTyped' = TRUE /\ UNCHANGED passwordTyped
  /\ UNCHANGED <<settingsPage, sessionsPart, prefPart, canDelete, impactShown,
                 impactRead, deleted, deleteDialog, has2fa, passwordPart, alertPart,
                 job, changes, signedIn>>

\* "Delete permanently": a password, and a code where the account has 2FA.
deletePressed ==
  /\ deleteDialog /\ job = NoJob /\ passwordTyped /\ (has2fa => codeTyped)
  /\ Start("delete", IF codeTyped THEN 1 ELSE 0)
  /\ UNCHANGED <<sessionsPart, prefPart, deletePart, passwordPart, alertPart>>

\* The server: an order rests or is filled meanwhile.
holdingsChange ==
  /\ settingsPage = "delete" /\ ~deleted /\ changes < MaxChanges
  /\ changes' = changes + 1
  /\ canDelete' = ~canDelete
  /\ UNCHANGED <<settingsPage, sessionsPart, prefPart, impactShown, impactRead,
                 deleted, deleteDialog, passwordTyped, codeTyped, has2fa,
                 passwordPart, alertPart, job, signedIn>>

\* The alert dialog: price typed or filled in; submit disabled while pending.
setTriggerPrice(p) ==
  /\ settingsPage = "alert" /\ alertOpen /\ p # alertPrice
  /\ alertPrice' = p
  /\ UNCHANGED <<settingsPage, sessionsPart, prefPart, deletePart, passwordPart,
                 alertOpen, alertsMade, job, changes, signedIn>>

openAlert(o) ==
  /\ settingsPage = "alert" /\ o # alertOpen
  /\ alertOpen' = o
  /\ UNCHANGED <<settingsPage, sessionsPart, prefPart, deletePart, passwordPart,
                 alertPrice, alertsMade, job, changes, signedIn>>

onSubmitAlert ==
  /\ alertOpen /\ job = NoJob
  /\ Start("alert", alertPrice)
  /\ UNCHANGED <<sessionsPart, prefPart, deletePart, passwordPart, alertPart>>

-----------------------------------------------------------------------------
\* The answers: what the server did (external), then onSuccess.
revokeDone ==
  /\ job.kind = "revoke"
  /\ alive' = alive \ {job.arg} /\ sessionsRead' = AskAgain
  /\ UNCHANGED <<listedSessions, prefPart, deletePart, passwordPart, alertPart, signedIn>>

\* POST /auth/logout-all revokes every session of the user, this one included;
\* the page forgets the list and the user, and goes home.
revokeAllDone ==
  /\ job.kind = "revokeAll"
  /\ alive' = {} /\ listedSessions' = {} /\ sessionsRead' = NoReread
  /\ signedIn' = FALSE
  /\ UNCHANGED <<prefPart, deletePart, passwordPart, alertPart>>

toggleDone ==
  /\ job.kind = "toggle"
  /\ serverPref' = (job.arg = 1) /\ prefRead' = AskAgain
  /\ switchPresses' = switchPresses + 1
  /\ UNCHANGED <<shownPref, sessionsPart, deletePart, passwordPart, alertPart, signedIn>>

passwordDone ==
  /\ job.kind = "password"
  /\ success' = TRUE
  /\ UNCHANGED <<rootError, sessionsPart, prefPart, deletePart, alertPart, signedIn>>

\* The server deletes only what it may; qc.clear(), and the page is left.
deleteDone ==
  /\ job.kind = "delete" /\ canDelete
  /\ deleted' = TRUE /\ deleteDialog' = FALSE /\ signedIn' = FALSE
  /\ UNCHANGED <<canDelete, impactShown, impactRead, passwordTyped, codeTyped, has2fa,
                 sessionsPart, prefPart, passwordPart, alertPart>>

alertDone ==
  /\ job.kind = "alert"
  /\ alertsMade' = alertsMade \cup {job.arg}
  /\ alertOpen' = FALSE /\ alertPrice' = 1
  /\ UNCHANGED <<sessionsPart, prefPart, deletePart, passwordPart, signedIn>>


\* 409: the impact is read again.
deleteConflict ==
  /\ job.kind = "delete" /\ ~canDelete
  /\ impactRead' = AskAgain /\ UNCHANGED impactShown

jobDone ==
  /\ job # NoJob /\ job' = NoJob
  /\ \/ revokeDone \/ revokeAllDone \/ toggleDone \/ passwordDone \/ deleteDone
     \/ alertDone
     \/ /\ deleteConflict
        /\ UNCHANGED <<canDelete, deleted, deleteDialog, passwordTyped, codeTyped,
                       has2fa, sessionsPart, prefPart, passwordPart, alertPart, signedIn>>
  /\ UNCHANGED <<settingsPage, changes>>

\* Any other error is a toast, and the password form's banner.
jobRefused ==
  /\ job # NoJob /\ job' = NoJob
  /\ rootError' = (job.kind = "password")
  /\ UNCHANGED <<settingsPage, sessionsPart, prefPart, deletePart, success,
                 alertPart, changes, signedIn>>

\* The invalidated reads: asked, computed, shown.
settingsReread ==
  /\ \/ /\ sessionsRead.st = "asked" /\ listedSessions' = alive
        /\ sessionsRead' = NoReread
        /\ UNCHANGED <<alive, prefPart, deletePart>>
     \/ /\ prefRead.st = "asked" /\ shownPref' = serverPref /\ prefRead' = NoReread
        /\ UNCHANGED <<serverPref, switchPresses, sessionsPart, deletePart>>
     \/ /\ impactRead.st = "asked" /\ impactShown' = canDelete /\ impactRead' = NoReread
        /\ UNCHANGED <<canDelete, deleted, deleteDialog, passwordTyped, codeTyped,
                       has2fa, sessionsPart, prefPart>>
  /\ UNCHANGED <<settingsPage, passwordPart, alertPart, job, changes, signedIn>>

SettingsNext ==
  \/ \E d \in Devices : handleRevoke(d)
  \/ handleRevokeAll \/ handleToggle \/ onSubmitPassword
  \/ \E o \in BOOLEAN : openDelete(o) \/ openAlert(o)
  \/ typeCredentials \/ deletePressed \/ holdingsChange
  \/ \E p \in 1..2 : setTriggerPrice(p)
  \/ onSubmitAlert \/ jobDone \/ jobRefused \/ settingsReread

SettingsSpec == SettingsInit /\ [][SettingsNext]_setVars

-----------------------------------------------------------------------------
SettingsTypeOK ==
  /\ alive \subseteq Devices /\ listedSessions \subseteq Devices
  /\ job.kind \in {"none", "revoke", "revokeAll", "toggle", "password", "delete", "alert"}
  /\ alertPrice \in 1..2 /\ alertsMade \subseteq 1..2
  /\ changes \in 0..MaxChanges

\* Revoking a row of the list never signs this device out: it stays signed in
\* until it asks for all sessions, or for the account, to go.
RevokeKeepsThisDevice == signedIn => 1 \in alive

\* Once everything under way has landed, the lists and switches show what the
\* server holds.
SettingsShowServer ==
  job = NoJob /\ sessionsRead = NoReread /\ prefRead = NoReread =>
    listedSessions = alive /\ shownPref = serverPref

\* A deletion is only asked for with every credential the account needs.
DeletionAskedInFull == job.kind = "delete" /\ has2fa => job.arg = 1

\* Refuted: "Revoke all other sessions" leaves this one alone.
OthersMeansOthers == settingsPage = "sessions" => 1 \in alive

\* Refuted: every press of the switch that was carried out turned it over.
EveryPressFlips == serverPref = (switchPresses % 2 = 1)

=============================================================================
