---------------------------------- MODULE Desk ----------------------------------
(***************************************************************************)
(* The parts of the program around the Modbus pages, each checked by       *)
(* itself: a behaviour is one of one part, and the others stay as they     *)
(* begin.  The parts meet only where their own modules say (the analyzer's *)
(* link and a page, a debugger and its channel, a debugger and the server  *)
(* of the same view): each has the others there as its environment.        *)
(***************************************************************************)
EXTENDS Analyzer, FrameTable, FrameBuilder, IoChannels, Debugger, ServerClients, Updates, ReleaseChoice, Monitors

CONSTANT Parts    \* the parts checked

VARIABLE part

others == <<analyzerVars, tableVars, ioVars, debuggerVars, serverVars, updateVars, choiceVars,
            trafficVars, bytes, builderVars>>

-----------------------------------------------------------------------------
(* The versions and the releases of ReleaseChoice: 1.0.0, 1.10, 1.9, 1.10-rc2, 1.10-rc10,
   1.10-rc.1, 1.10-11 and the tag 1.x, with two files of one name, or a file without
   an address. *)

Version(segments, prerelease) == [segments |-> segments, prerelease |-> prerelease]
rc == 12
MCTags ==
  { Version(<<<<1>>, <<0>>, <<0>>>>, <<>>), Version(<<<<1>>, <<1, 0>>>>, <<>>),
    Version(<<<<1>>, <<9>>>>, <<>>), Version(<<<<1>>, <<1, 0>>>>, <<<<rc, 2>>>>),
    Version(<<<<1>>, <<1, 0>>>>, <<<<rc, 1, 0>>>>), Version(<<<<1>>, <<1, 0>>>>, <<<<rc>>, <<1>>>>),
    Version(<<<<1>>, <<1, 0>>>>, <<<<1, 1>>>>), Version(<<<<1>>, <<rc>>>>, <<>>) }

File(name, url, digest) == [name |-> name, url |-> url, digest |-> digest]
MCAssetLists ==
  { <<File("UpdateOnly.exe", TRUE, TRUE), File("Setup.exe", TRUE, TRUE),
      File("UpdateOnly.exe", TRUE, FALSE), File("sha256sums.txt", TRUE, FALSE)>>,
    <<File("deb", FALSE, TRUE), File("tar.gz", TRUE, TRUE), File("deb", TRUE, FALSE)>> }

\* What the frame builder is left with and what is typed into it: coils as words, numbers
\* of one to four digits, with a prefix, with a letter in them, two of them, and bits.
MCForms ==
  { [FirstForm EXCEPT !.proto = "TCP", !.fc = 16, !.quantity = 1, !.base = "1Based",
                      !.address = Decimal(40001)],
    [FirstForm EXCEPT !.proto = "ASCII", !.fc = 5, !.quantity = 2000, !.text = <<On>>],
    [FirstForm EXCEPT !.fc = 15, !.quantity = 9, !.format = "Binary",
                      !.text = <<<<1, 0, 1>>, <<1, 0, 0, 1, 0, 1>>>>],
    [FirstForm EXCEPT !.fc = 16, !.format = "Decimal", !.text = <<<<1>>, <<2>>>>] }
MCAddresses == {Hex(0), Decimal(40001), Decimal(65535)}
MCTexts ==
  { <<On>>, <<Off>>, <<<<1>>>>, <<<<0, 1>>>>, <<<<1>>, <<2>>>>, <<<<0, X, 1, 2, 3, 4>>>>,
    <<<<1, 2, Letter>>>>, <<<<0, 0, 1, 0>>>>, <<<<15, 15, 0, 0>>>>, <<<<15, 15>>, <<15, 15>>>>,
    <<<<1, 0, 1>>, <<1, 0, 0, 1, 0, 1>>>>, <<<<1>>, <<0>>>>,
    <<<<1, 1, 1, 1, 1, 1, 1, 1, 0, 0, 0, 0, 0, 0, 0, 0>>>> }

-----------------------------------------------------------------------------
(* Where a part may begin in several ways, it does so only in its own behaviours. *)

DeskInit ==
  /\ part \in Parts
  /\ saved \in (IF part = "builder" THEN SavedForms ELSE {FirstForm}) /\ BuilderInit
  /\ AnalyzerInit /\ TableInit /\ ServerInit /\ TrafficInit /\ BytesInit
  /\ IoInit /\ (part # "io" => c.kind = "tcp" /\ c.valid)
  /\ DebuggerInit /\ (part # "debugger" => panel.proto = "tcp")
  /\ UpdateInit /\ (part # "update" => app.inFlight = 0)
  /\ IF part = "release" THEN ChoiceInit
     ELSE /\ releases = <<>> /\ optIn = FALSE /\ offered = NothingOffered
          /\ current = CHOOSE tag \in Tags : TRUE

Keep(name, vars) == part # name => UNCHANGED vars

Step ==
  \/ part = "analyzer" /\ AnalyzerNext
  \/ part = "table"    /\ TableNext
  \/ part = "io"       /\ IoNext
  \/ part = "debugger" /\ DebuggerNext
  \/ part = "server"   /\ ServerNext
  \/ part = "update"   /\ UpdateNext
  \/ part = "release"  /\ ChoiceNext
  \/ part = "traffic"  /\ TrafficNext
  \/ part = "bytes"    /\ BytesNext
  \/ part = "builder"  /\ BuilderNext

DeskNext ==
  /\ Step
  /\ Keep("analyzer", analyzerVars) /\ Keep("table", tableVars) /\ Keep("io", ioVars)
  /\ Keep("debugger", debuggerVars) /\ Keep("server", serverVars) /\ Keep("update", updateVars)
  /\ Keep("release", choiceVars) /\ Keep("traffic", trafficVars) /\ Keep("bytes", bytes)
  /\ Keep("builder", builderVars)
  /\ UNCHANGED part

DeskFairness == AnalyzerFairness /\ IoFairness /\ DebuggerFairness /\ UpdateFairness

DeskSpec == DeskInit /\ [][DeskNext]_<<part, others>> /\ DeskFairness

-----------------------------------------------------------------------------
(* What holds of several parts *)

\* What is begun ends: a parse, the opening or closing of a channel, the widget's
\* Connecting and Disconnecting, a verification with its dialog.
DeskSettles == ParseEnds /\ TransientEnds /\ DisplaySettles /\ VerificationEnds

\* What the frame builder shows can be sent: it is the frame of the form, and says what was
\* typed.
BuilderTruthful == part = "builder" => BuildsTruthfully

\* An update is installed verified, and offered no more once it runs.
UpdateIsWanted == QuitsForVerified /\ NeverOfferedAgain

=============================================================================
