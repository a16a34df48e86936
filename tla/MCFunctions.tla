---------------------------- MODULE MCFunctions ----------------------------
(***************************************************************************)
(* The parts of the program that only compute, called once each with every *)
(* input of a small set: "called" is the function, its input and its       *)
(* result.                                                                 *)
(***************************************************************************)
EXTENDS UsageSummary, NameplateChoice, PeerAddress, ProcessLimits, ReleaseVersion, PackageVersion, ServerOptions

VARIABLE called

NoCall == [function |-> "none"]

MCRows == UNION {[1..n -> [added : 1..3, mood : Moods \union {None}]] : n \in 1..3}

Summarize ==
    \E rows \in MCRows, pruned \in BOOLEAN, blur \in {None, 0, 2} :
        called' = [function |-> "summarize", rows |-> rows, deleted |-> 4, pruned |-> pruned,
                   blur |-> blur, nameplate |-> SummarizeNameplate(rows, 4, pruned, blur),
                   mailbox |-> SummarizeMailbox(rows, 4, pruned, blur)]

\* A client has claimed "01" as well.
MCNames == {Written(n) : n \in 1..(Radix^LongSizes - 1)} \union {<<0, 1>>}

ChooseNameplate ==
    \E claimed \in SUBSET MCNames : \E name \in Outcomes(claimed) :
        called' = [function |-> "allocate", claimed |-> claimed, name |-> name]

AcceptNameplate ==
    \E n \in 0..3 : \E text \in [1..n -> DecimalDigits \union Others] :
        called' = [function |-> "accept", text |-> text]

LocatePeer ==
    \E client \in V4Clients \union V6Clients : \E request \in Requests(client, "53276") :
        called' = [function |-> "locate", client |-> client, request |-> request]

RaiseLimit ==
    \E p \in Platforms : called' = [function |-> "raise", platform |-> p, limit |-> Increased(p)]

MCVersions == {v \in Versions : v.major \in {0, 1} /\ {v.minor, v.patch} \subseteq {0, 2, 9, 10}}

Release ==
    \E v, w \in MCVersions, clean \in BOOLEAN, args \in SUBSET (Known \union {"--major"}) :
        called' = [function |-> "release", tags |-> {v, w}, clean |-> clean, args |-> args,
                   tagged |-> Tagged({v, w}, clean, args)]

MCNameOrder ==
    <<<<"0.10.0">>, <<"0.9.0">>, <<"0.9.0", "+", "local">>, <<"0.9.0", "rc1">>, <<"master">>, <<"v2">>>>

MCVersionNames == {MCNameOrder[i] : i \in 1..4}

MCDigitNames == MCVersionNames \union {<<"v2">>}

MCDirectories == {<<>>, <<"-", "0.9.0">>}

Archives ==
    {[refs |-> refs, hasFile |-> TRUE, failing |-> {}, detached |-> TRUE, tag |-> NoVersion,
      distance |-> 1, short |-> "abc", dirty |-> FALSE, parents |-> [i \in 1..3 |-> NoVersion]] :
        refs \in UNION {kSubset(n, Refs) : n \in 0..3}}

Checkouts ==
    [refs : {NoVersion}, hasFile : BOOLEAN, failing : {{}} \union {{c} : c \in GitCommands},
     detached : BOOLEAN, tag : VersionNames \union {NoVersion, Garbled}, distance : Distances,
     short : Commits, dirty : BOOLEAN,
     parents : {<<NoVersion, d, e>> : d, e \in Directories \union {NoVersion}}]

TellVersion ==
    \E t \in {u \in Archives \union Checkouts : IsTree(u)} :
        called' = [function |-> "version", tree |-> t, version |-> Version(t)]

ParseOptions ==
    \E n \in 0..3 : \E args \in [1..n -> Arguments] :
        called' = [function |-> "options", args |-> args]

LogVersion ==
    \E server_rx \in 0..5, blur \in {None, 0, 2, 3} :
        called' = [function |-> "bind", time |-> server_rx, blur |-> blur,
                   connected |-> ConnectTime(server_rx, blur)]

Init == called = NoCall

Next ==
    /\ called = NoCall
    /\ \/ Summarize
       \/ ChooseNameplate
       \/ AcceptNameplate
       \/ LocatePeer
       \/ RaiseLimit
       \/ Release
       \/ TellVersion
       \/ ParseOptions
       \/ LogVersion

Spec == Init /\ [][Next]_called

-----------------------------------------------------------------------------
\* docs/operations.md:42-43: the times in a usage row are those of the first and of
\* the second side to arrive, and of the end.
UsageTimesTell ==
    called.function = "summarize" =>
        /\ TimesTell(called.rows, called.deleted, called.blur, called.nameplate)
        /\ TimesTell(called.rows, called.deleted, called.blur, called.mailbox)

\* usage-v2.sql:18 "rounded to blur time": no row of the usage database, of a
\* nameplate, a mailbox or a client's version, tells when exactly a client came.
UsageIsBlurred ==
    /\ called.function = "summarize" =>
          /\ StartIsBlurred(called.rows, called.blur, called.nameplate)
          /\ StartIsBlurred(called.rows, called.blur, called.mailbox)
    /\ called.function = "bind" => IsBlurred(called.time, called.blur, called.connected)

\* docs/operations.md:62 "the server records the most severe mood in the record".
UsageTellsWorstMood ==
    called.function = "summarize" => MoodTells(called.rows, called.pruned, called.mailbox)

\* docs/server-protocol.md:129-130 "as short as possible", as far as the code keeps
\* it: an allocated nameplate is free and no free one of up to three digits is
\* shorter; allocation fails, or gives one of four to six digits at random, only
\* when all those are taken.  What the server makes, and what it takes from a
\* client, are digits, but for one line feed at the end of the latter.
ShortNamesFirst ==
    /\ called.function = "allocate" => AllocationIsSound(called.claimed, called.name)
    /\ called.function = "accept" => AcceptedAreDigits(called.text)

\* docs/operations.md:15: a client is recorded under one address whichever way its
\* connections arrive.
OnePlace ==
    called.function = "locate" => SamePlace(called.client, "53276", called.request)

\* increase_rlimits.py:16-20: on the platforms it tells of, the limit on open files
\* is never lowered and raised as far as the values tried allow.
RaisesLimit ==
    called.function = "raise" => LimitIsRaised(called.platform, called.limit)

\* A release adds one tag that is newer than all there are, or none; and what the
\* package says it is, is that release exactly if it is.
VersionsTell ==
    /\ called.function = "release" =>
          ReleasesGoUp(called.tags, called.clean, called.args, called.tagged)
    /\ called.function = "version" => VersionIsRight(called.tree, called.version)

\* The options given last are what the clients are told, and with --blur-usage no
\* log names a client.
OptionsTell ==
    called.function = "options" => LastValueCounts(called.args) /\ BlurringIsPrivate(called.args)
=============================================================================
