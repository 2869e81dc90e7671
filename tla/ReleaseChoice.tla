--------------------------- MODULE ReleaseChoice ---------------------------
(***************************************************************************)
(* Which release the update check offers: the order of version tags        *)
(* (src/core/update/ReleaseParser.cpp), the filter of drafts and           *)
(* prereleases, and the package that goes with the choice                  *)
(* (PlatformReleaseAssetStrategy.cpp, UpdateChecker.cpp).  A tag comes     *)
(* split at its dots and its dash; a character is a digit 0..9 or a letter *)
(* above them, a whole label being one letter.                             *)
(***************************************************************************)
EXTENDS Integers, SequencesExt, FiniteSetsExt

CONSTANTS
  Tags,          \* the tags releases carry: [segments |-> Seq(token), prerelease |-> Seq(token)]
  MaxReleases,   \* releases on the server
  AssetLists     \* the files of a release: sequences of [name, url : BOOLEAN, digest : BOOLEAN]

\* The identifiers after the dash are numbers, labels and labels with a tail.  Of others
\* compareVersions() makes no order: rc10 < rc1a < rc2 < rc10.
PlainId(id) == id \in Seq(Nat) /\ id # <<>> /\ \A i \in 2..Len(id) : id[i] <= 9
ASSUME TagsArePlain ==
  \A tag \in Tags : /\ tag \in [segments : Seq(Seq(Nat)), prerelease : Seq(Seq(Nat))]
                     /\ \A i \in DOMAIN tag.prerelease : PlainId(tag.prerelease[i])

ASSUME ReleasesBounded == MaxReleases \in Nat

VARIABLES
  releases,      \* the answer of the server, newest creation first
  optIn,         \* MODBUS_TOOLS_PRERELEASE
  current,       \* the tag of the running program
  offered        \* the release on offer and what to download of it, or NothingOffered

choiceVars == <<releases, optIn, current, offered>>

NoTag == [segments |-> <<>>, prerelease |-> <<>>]
Releases == [tag : Tags \cup {NoTag}, kind : {"draft", "pre", "plain"}]
NothingOffered == [release |-> [tag |-> NoTag, kind |-> "draft"]]

-----------------------------------------------------------------------------
(* Versions *)

IsDigit(char) == char <= 9
IsAllDigits(id) == id # <<>> /\ \A i \in DOMAIN id : IsDigit(id[i])

\* from_chars() into an int: what does not fit leaves 0.  Tokens of exactly ten digits
\* are left out.
NumericValue(id) ==
  LET value[n \in 0..Len(id)] == IF n = 0 THEN 0 ELSE 10 * value[n - 1] + id[n] IN
  IF Len(id) > 10 THEN 0 ELSE value[Len(id)]

\* parseVersionParts(): a token that is not a number counts 0.
Segment(v, i) ==
  IF i <= Len(v.segments) /\ IsAllDigits(v.segments[i]) THEN NumericValue(v.segments[i]) ELSE 0

\* Comparisons give -1, 0 or 1.  Of two sequences compared item by item the first
\* difference decides, and after that the length.
Sign(a, b) == IF a = b THEN 0 ELSE IF a < b THEN -1 ELSE 1
FirstNonZero(signs) ==
  LET found == {i \in DOMAIN signs : signs[i] # 0} IN IF found = {} THEN 0 ELSE signs[Min(found)]
CompareBy(signs, a, b) == IF FirstNonZero(signs) # 0 THEN FirstNonZero(signs) ELSE Sign(Len(a), Len(b))
Both(a, b) == DOMAIN a \cap DOMAIN b

\* splitHybrid(): a label and only digits after it.
LabelLength(id) ==
  LET digits == {i \in DOMAIN id : IsDigit(id[i])} IN IF digits = {} THEN Len(id) ELSE Min(digits) - 1
IsHybrid(id) ==
  /\ LabelLength(id) \in 1..Len(id) - 1
  /\ \A i \in LabelLength(id) + 1..Len(id) : IsDigit(id[i])
Label(id) == SubSeq(id, 1, LabelLength(id))
Tail10(id) == NumericValue(SubSeq(id, LabelLength(id) + 1, Len(id)))

CompareText(a, b) == CompareBy([i \in Both(a, b) |-> Sign(a[i], b[i])], a, b)

CompareIdentifiers(l, r) ==
  IF IsHybrid(l) /\ IsHybrid(r)
  THEN IF Label(l) # Label(r) THEN CompareText(Label(l), Label(r)) ELSE Sign(Tail10(l), Tail10(r))
  ELSE IF IsAllDigits(l) /\ IsAllDigits(r) THEN Sign(NumericValue(l), NumericValue(r))
  ELSE IF IsAllDigits(l) # IsAllDigits(r) THEN IF IsAllDigits(l) THEN -1 ELSE 1
  ELSE CompareText(l, r)

\* The end of compareVersions(), and comparePrereleaseIdentifiers().
ComparePrerelease(l, r) ==
  IF l = r THEN 0
  ELSE IF l = <<>> THEN 1
  ELSE IF r = <<>> THEN -1
  ELSE CompareBy([i \in Both(l, r) |-> CompareIdentifiers(l[i], r[i])], l, r)

CompareVersions(a, b) ==
  LET main == FirstNonZero([i \in DOMAIN a.segments \cup DOMAIN b.segments |->
                              Sign(Segment(a, i), Segment(b, i))]) IN
  IF main # 0 THEN main ELSE ComparePrerelease(a.prerelease, b.prerelease)

-----------------------------------------------------------------------------
(* The check *)

\* parseReleases(): those that may be offered, in their order.
Eligible(release) == release.kind = "plain" \/ (release.kind = "pre" /\ optIn)
Listed ==
  LET kept[n \in 0..Len(releases)] ==
        IF n = 0 THEN <<>>
        ELSE IF Eligible(releases[n]) THEN Append(kept[n - 1], releases[n]) ELSE kept[n - 1] IN
  kept[Len(releases)]

\* max_element(): the first of the highest.
LatestOf(list) ==
  LET best[n \in 0..Len(list)] ==
        IF n = 0 THEN list[1]
        ELSE IF CompareVersions(best[n - 1].tag, list[n].tag) < 0 THEN list[n] ELSE best[n - 1] IN
  best[Len(list)]

\* The first release of the answer.
LatestFirst(list) == list[1]

Latest(list) == LatestOf(list)

\* layoutForPackage(): the names the files of a platform have, the best package first.
Families == {"windows", "macos", "linux", "unknown"}
Layout(family) ==
  CASE family = "windows" -> [update |-> {"UpdateOnly.exe"}, full |-> <<"Setup.exe">>, guidance |-> "installer"]
    [] family = "macos"   -> [update |-> {}, full |-> <<"dmg", "pkg", "zip">>, guidance |-> "page"]
    [] family = "linux"   -> [update |-> {}, full |-> <<"AppImage", "deb", "rpm", "tar.gz">>, guidance |-> "command"]
    [] OTHER              -> [update |-> {}, full |-> <<>>, guidance |-> "page"]

\* A file is known by its place in the list, and so are its address and its digest; 0 is none.
Where(condition, i) == IF condition THEN i ELSE 0
LastNamed(assets, names) ==
  LET found == {i \in DOMAIN assets : assets[i].name \in names} IN
  IF found = {} THEN 0 ELSE CHOOSE i \in found : \A j \in found : j <= i

\* resolveFullPackageUrl(): by name, then by place; one without an address is passed over.
FullPackage(assets, names) ==
  LET Usable(n) == {i \in DOMAIN assets : assets[i].name = names[n] /\ assets[i].url}
      named == {n \in DOMAIN names : Usable(n) # {}} IN
  IF named = {} THEN 0
  ELSE LET best == CHOOSE n \in named : \A m \in named : n <= m IN
       CHOOSE i \in Usable(best) : \A j \in Usable(best) : i <= j

\* The last file of the update's name gives the address and the digest.
UpdateDigest(assets, names) ==
  LET i == LastNamed(assets, names) IN Where(i # 0 /\ assets[i].digest, i)

Package(assets, family) ==
  LET layout == Layout(family)
      update == LastNamed(assets, layout.update)
      sums == LastNamed(assets, {"sha256sums.txt"})
      full == FullPackage(assets, layout.full) IN
  [update |-> Where(update # 0 /\ assets[update].url, update),
   updateSha |-> UpdateDigest(assets, layout.update),
   sums |-> Where(sums # 0 /\ assets[sums].url, sums),
   full |-> full, fullSha |-> Where(full # 0 /\ assets[full].digest, full),
   guidance |-> layout.guidance]

\* promptUpdateAction(): in the program, by a command for the terminal, or from a page.
Route(package) ==
  IF package.update # 0 THEN "in_program"
  ELSE IF package.guidance = "command" /\ package.full # 0 THEN "command" ELSE "page"

\* checkForUpdates(): a release without a tag fails the check.
Check ==
  /\ offered = NothingOffered /\ Listed # <<>>
  /\ Latest(Listed).tag # NoTag /\ CompareVersions(Latest(Listed).tag, current) > 0
  /\ \E assets \in AssetLists, family \in Families :
       LET package == Package(assets, family) IN
       offered' = [release |-> Latest(Listed), package |-> package, route |-> Route(package)]
  /\ UNCHANGED <<releases, optIn, current>>

Install ==
  /\ offered # NothingOffered
  /\ current' = offered.release.tag /\ offered' = NothingOffered
  /\ UNCHANGED <<releases, optIn>>

ChoiceInit ==
  /\ releases \in BoundedSeq(Releases, MaxReleases)
  /\ optIn \in BOOLEAN
  /\ current \in Tags
  /\ offered = NothingOffered

ChoiceNext == Check \/ Install

-----------------------------------------------------------------------------
(* Properties *)

\* The reference order.  A version is a list of ranks: its numbers, then its identifiers,
\* numbers below labels, and a label with a number after the label alone; a release ends
\* above all of them, and what has ended is below what goes on.
IdRank(id) ==
  IF IsAllDigits(id) THEN <<1, NumericValue(id), 0>>
  ELSE <<2, id[1], IF Len(id) > 1 THEN 1 + NumericValue(Tail(id)) ELSE 0>>

Rank(v, numbers, n) ==
  IF n <= numbers THEN <<Segment(v, n), 0, 0>>
  ELSE IF n - numbers <= Len(v.prerelease) THEN IdRank(v.prerelease[n - numbers])
  ELSE IF v.prerelease = <<>> /\ n = numbers + 1 THEN <<3, 0, 0>>
  ELSE <<0, 0, 0>>

RankLess(x, y) == \E p \in 1..3 : x[p] < y[p] /\ \A q \in 1..p - 1 : x[q] = y[q]

\* The first place at which they differ decides.
LessWithin(a, b, numbers, places) ==
  \E n \in 1..places : /\ RankLess(Rank(a, numbers, n), Rank(b, numbers, n))
                        /\ \A m \in 1..n - 1 : Rank(a, numbers, m) = Rank(b, numbers, m)

Older(a, b) ==
  LET numbers == Max({Len(a.segments), Len(b.segments)})
      places == numbers + Max({1, Len(a.prerelease), Len(b.prerelease)}) IN
  LessWithin(a, b, numbers, places)

\* compareVersions() is the order of SemVer with the project's "rcN" tails, on numbers,
\* labels and labels with a tail (ReleaseParser.cpp, the comment above
\* comparePrereleaseIdentifiers).
OrderMatchesSemVer ==
  \A r \in ToSet(releases) :
    CompareVersions(r.tag, current)
      = IF Older(r.tag, current) THEN -1 ELSE IF Older(current, r.tag) THEN 1 ELSE 0

\* What is offered is newer than the program, was published, and no release the user may
\* have is newer still, wherever the server lists it.
OffersNewest ==
  offered # NothingOffered =>
    LET release == offered.release IN
    /\ release \in ToSet(releases) /\ release.kind # "draft" /\ (release.kind = "pre" => optIn)
    /\ Older(current, release.tag)
    /\ \A r \in ToSet(releases) : Eligible(r) => ~Older(release.tag, r.tag)

\* The digest that will be checked is that of the file that will be downloaded, however
\* often a name appears in the release.
DigestBelongs ==
  offered # NothingOffered =>
    /\ offered.package.update # 0 => offered.package.updateSha \in {0, offered.package.update}
    /\ offered.package.fullSha \in {0, offered.package.full}

\* No phantom update: once the offered release runs, nothing the server lists is offered
\* again, so a user of a prerelease is not asked forever.
NeverOfferedAgain ==
  [][offered # NothingOffered /\ current' # current =>
       \A r \in ToSet(releases) : Eligible(r) => CompareVersions(r.tag, current') <= 0]_choiceVars

\* The right release is offered, by the right order, with the right digest.
OfferIsRight == OrderMatchesSemVer /\ OffersNewest /\ DigestBelongs

=============================================================================
