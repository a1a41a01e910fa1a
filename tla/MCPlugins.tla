----------------------------- MODULE MCPlugins -----------------------------
(* Inputs of the parts that add, remove and make a plugin.                   *)
EXTENDS Given, Naturals, Sequences, FiniteSets

PC == INSTANCE PluginConfig
PL == INSTANCE Plugins

-----------------------------------------------------------------------------
(* PluginConfig *)

H(path) == PC!Header(path)
ConfigLines == {H(<<"plugins">>), H(<<"plugins", "a">>), H(<<"plugins", "a", "s">>), H(<<"plugins", "b">>), H(<<"o">>),
                PC!Value(<<"from">>, "x"), PC!Value(<<"plugins", "a", "from">>, "x"), PC!Value(<<"plugins">>, "inline b"), 
                PC!Value(<<"a">>, "inline b"), 
                PC!Blank, PC!Comment, PC!Line("begin", <<"t">>, ""), PC!Line("end", <<>>, "")}
OtherLines == {<<PC!Line("wrong", <<>>, "")>>, <<PC!Value(<<"n">>, "huge")>>, <<PC!Value(<<"plugins">>, "x")>>,
               \* A string that looks like a section of the plugin.
               <<H(<<"plugins", "a">>), H(<<"o">>), PC!Line("begin", <<"t">>, ""), H(<<"plugins", "a">>), H(<<"o">>),
                 PC!Line("end", <<>>, "")>>}
ConfigTexts == {PC!Text(lines, ends) : lines \in OtherLines \cup UNION {[1..n -> ConfigLines] : n \in 0..3}, ends \in BOOLEAN}
SomeTexts == {PC!Text(<<>>, TRUE), PC!Text(<<H(<<"plugins", "a">>), PC!Value(<<"from">>, "x")>>, TRUE), PC!Text(<<H(<<"o">>)>>, FALSE)}
Edits == [text : ConfigTexts, key : {"a"}, from : {"y"}]
         \cup [text : {PC!Text(<<H(<<"plugins", "__proto__">>)>>, TRUE)}, key : {"__proto__"}, from : {"y"}]
         \cup [text : {PC!Text(<<>>, TRUE)}, key : {"a", "control"}, from : {"y", "control"}]


-----------------------------------------------------------------------------
(* Plugins *)

Wanted(path, package, below) == [byPath |-> path # <<>>, path |-> path, package |-> package, below |-> below]
PackageSpecs == {Wanted(<<>>, "n", <<>>), Wanted(<<>>, "n", <<"s">>), Wanted(<<"w", "node_modules", "n">>, "", <<>>)}
Exports(type, keys) == [type |-> type, keys |-> keys]
Key(key, target) == [key |-> key, target |-> target]
Manifest == [json |-> TRUE, object |-> TRUE, name |-> "absent", exports |-> Exports("absent", <<>>), apiVersion |-> 1,
             entry |-> "there"]
Manifests == {Manifest, [Manifest EXCEPT !.json = FALSE, !.object = FALSE],
              [Manifest EXCEPT !.exports = Exports("other", <<>>)],
              [Manifest EXCEPT !.exports = Exports("object", <<Key("./package.json", FALSE), Key("./*", TRUE)>>), !.name = "n"],
              [Manifest EXCEPT !.exports = Exports("object", <<Key("./package.json", TRUE)>>), !.name = "n"],
              [Manifest EXCEPT !.apiVersion = 2], [Manifest EXCEPT !.entry = "missing"]}
PackagePlaces == {<<"w">>, <<"w", "node_modules", "n">>, <<"w", "node_modules", "n", "s">>, <<"node_modules", "n">>, <<"g", "n">>}
Disks == UNION {[places -> Manifests] : places \in {p \in SUBSET PackagePlaces : Cardinality(p) <= 3}}
PackageEnv == [home |-> <<"h">>, nodePath |-> <<<<"node_modules">>>>, global |-> <<"g">>]
Resolves == [disk : Disks, spec : PackageSpecs, cwd : {<<"w", "x">>, <<"w", "node_modules">>}, env : {PackageEnv, [PackageEnv EXCEPT !.global = <<>>]}]

PluginNames == {<<>>} \cup UNION {[1..n -> {"/", "tagents-plugin-", "plugin-", "n", "_", "bad"}] : n \in 1..3}
Resolutions == {[ok |-> FALSE, why |-> why] : why \in {"not found", "bad manifest", "no entry"}}
               \cup {[ok |-> TRUE, name |-> name] : name \in PluginNames \ {<<>>}}
PluginCalls == [call : [verb : {"add", "remove", "new", "list"}, refused : BOOLEAN, word : {<<>>, <<"n">>, <<"bad">>}, name : {<<>>, <<"n">>, <<"_", "n">>, <<"/">>}],
          cwd : {"w", "gone"}, resolved : Resolutions, made : {"written", "exists", "absent", "fault"}]

PluginFiles == <<<<"package.json">>, <<"src", "index.ts">>, <<"src", "test", "index.test.ts">>, <<"README.md">>>>
Trees == {{<<>>}, {<<>>, <<"p">>}, {<<>>, <<"p">>, <<"p", "q">>}, {<<>>, <<"p">>, <<"p", "q">>, <<"p", "q", "own">>},
          {<<>>, <<"p">>, <<"p", "own">>}}
Strangers == {{}, {<<"p", "other">>}, {<<"p", "q", "other">>}, {<<"p", "q", "src", "other">>}, {<<"other">>, <<"p", "q", "src", "test", "other">>}}
Scaffolds ==
  [tree : Trees, dir : {<<"p">>, <<"p", "q">>, <<"p", "q", "r">>}, files : {PluginFiles}, fails : 0..4, made : 0..6,
   fault : {"none", "scandir", "root"}, others : Strangers]

-----------------------------------------------------------------------------
(* What an input is, of any size *)

Path == Seq(STRING)
ConfigFile ==
  [at : {"nothing", "file", "link", "dangling"}, temporary : {<<>>},
   text : [lines : Seq([type : STRING, path : Path, value : STRING]), ends : BOOLEAN]]

\* What is no JSON is no object; an entry is a file that is there or not.
PackageJson ==
  {manifest \in [json : BOOLEAN, object : BOOLEAN, name : STRING, apiVersion : Nat, entry : {"absent", "", "missing", "there"},
                exports : [type : STRING, keys : Seq([key : STRING, target : BOOLEAN])]] :
     manifest.object => manifest.json}
IsResolve(i) ==
  /\ i.cwd \in Path /\ i.env.nodePath \in Seq(Path)
  /\ i.spec \in [byPath : BOOLEAN, path : Path, package : STRING, below : Path]
  /\ \A dir \in DOMAIN i.disk : dir \in Path /\ i.disk[dir] \in PackageJson

\* What is resolved has a name.
IsPluginCall(i) ==
  /\ i.call \in [verb : STRING, refused : BOOLEAN, word : Path, name : Path]
  /\ i.resolved.ok \in BOOLEAN
  /\ i.resolved.ok => i.resolved.name \in Path \ {<<>>}

\* A tree holds the directories its paths lie in.  What the plugin consists of
\* and what other programs put there are files, none on the way of the other.
IsScaffold(i) ==
  /\ i.tree \subseteq Path /\ i.others \subseteq Path /\ i.dir \in Path /\ i.files \in Seq(Path \ {<<>>})
  /\ i.fails \in Nat /\ i.made \in Nat
  /\ \A path \in i.tree : PL!Up(path) \subseteq i.tree
  /\ \A k \in DOMAIN i.files : \A other \in i.others :
       ~PL!IsPrefix(i.dir \o i.files[k], other) /\ ~PL!IsPrefix(other, i.dir \o i.files[k])

IsPluginInput(i) ==
  CASE i.of = "disk" -> i.input.disk \in ConfigFile
    [] i.of = "resolve" -> IsResolve(i.input)
    [] i.of = "plugin" -> IsPluginCall(i.input)
    [] i.of = "scaffold" -> IsScaffold(i.input)
    [] OTHER -> TRUE

-----------------------------------------------------------------------------
EditInputs == [of : {"edit"}, input : Edits]
DiskInputs ==
  [of : {"disk"}, input : [disk : [at : {"nothing", "file", "link", "dangling"}, text : SomeTexts, temporary : {<<>>}],
                           fails : SUBSET {"lstat", "read", "mkdir", "write", "rename", "remove"}]]
ResolveInputs == [of : {"resolve"}, input : Resolves]
PluginCallInputs == [of : {"plugin"}, input : PluginCalls]
ScaffoldInputs == [of : {"scaffold"}, input : Scaffolds]

PluginInputs ==
  \/ given \in EditInputs \/ given \in DiskInputs \/ given \in ResolveInputs
  \/ given \in PluginCallInputs \/ given \in ScaffoldInputs

\* The inputs above are of these.
ArePluginInputs(inputs) == \A i \in inputs : IsPluginInput(i)

\* A plugin is taken from the nearest package of its name, a call that fails has
\* edited nothing, and whatever fails the configuration holds the old text or
\* the new one and the files of a new plugin are there all or none (plugin.rs,
\* plugin/config.rs, plugin/resolve.rs).
PluginsAreWhole ==
  LET i == given.input
  IN CASE given.of = "disk" -> PC!EditsAreWhole(i.disk, i.fails, "a", "y")
       [] given.of = "resolve" -> PL!NearestPackageIsTaken(i.disk, i.spec, i.cwd, i.env)
       [] given.of = "plugin" -> PL!FailuresEditNothing(i.call, i.cwd, i.resolved, i.made)
       [] given.of = "scaffold" -> PL!WrittenAllOrNone(i.tree, i.dir, i.files, i.fails, i.made, i.fault, i.others)
       [] OTHER -> TRUE
=============================================================================
