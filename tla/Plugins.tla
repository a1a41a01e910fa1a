------------------------------ MODULE Plugins ------------------------------
(***************************************************************************)
(* `plugin add | remove | new`: where a package is found, what makes it a  *)
(* plugin, what an edit of the configuration comes to, and a new plugin's  *)
(* files, which are written all or none (plugin.rs, plugin/resolve.rs).    *)
(*                                                                         *)
(* A path is the sequence of its names from the root.                      *)
(***************************************************************************)
EXTENDS Naturals, Sequences, SequencesExt, FiniteSets, FiniteSetsExt

-----------------------------------------------------------------------------
(* Finding a package.  `disk` maps a directory to the package.json in it:    *)
(* whether it is JSON and an object, its name, its exports, and its plugin.  *)
(* A spec is a package, and the directories under it.                        *)

\* split_package, the other way round.
Under(folder, spec) == folder \o <<spec.package>> \o spec.below

\* exported: some key that has a target matches, one star for any text; of
\* the keys that match the manifest of a directory below, none is exact.
Matching(spec) == IF spec.below = <<>> THEN {"./package.json", "./*", "./*.json"} ELSE {"./*", "./*.json"}
Exported(exports, spec) ==
  exports.type = "object" /\ \E i \in DOMAIN exports.keys : exports.keys[i].target /\ exports.keys[i].key \in Matching(spec)

\* exports_allow
Allows(manifest, spec) == manifest.exports.type \in {"absent", "null"} \/ Exported(manifest.exports, spec)

\* ancestors: nearest first.
Ancestors(dir) == [i \in 1..(Len(dir) + 1) |-> SubSeq(dir, 1, Len(dir) + 1 - i)]
IsModules(dir) == dir # <<>> /\ Last(dir) = "node_modules"

NotFound == <<>>
Found(dir) == <<dir>>
\* What one look says: go on, or this and nothing else.
Further == [ends |-> FALSE, dir |-> NotFound]
Ends(dir) == [ends |-> TRUE, dir |-> dir]

\* The package the working directory is in, by its own name: the nearest
\* manifest decides, below the nearest node_modules.
SelfReference(disk, spec, cwd) ==
  LET ups == Ancestors(cwd)
      stops == {i \in DOMAIN ups : IsModules(ups[i])} \cup {Len(ups) + 1}
      near == {i \in DOMAIN ups : i < Min(stops) /\ ups[i] \in DOMAIN disk}
      manifest == disk[ups[Min(near)]]
  IN IF near = {} THEN Further
     ELSE IF ~manifest.object THEN Ends(NotFound)
     ELSE IF manifest.name # spec.package \/ manifest.exports.type \in {"absent", "null"} THEN Further
     ELSE Ends(IF Allows(manifest, spec) THEN Found(ups[Min(near)]) ELSE NotFound)

\* A folder of modules: what has the package's manifest decides.
InFolder(disk, spec, folder) ==
  LET root == folder \o <<spec.package>>
  IN IF Under(folder, spec) \notin DOMAIN disk THEN Further
     ELSE IF root \notin DOMAIN disk \/ ~disk[root].object \/ ~Allows(disk[root], spec) THEN Ends(NotFound)
     ELSE Ends(Found(Under(folder, spec)))

\* The modules of these directories, none of one that is modules itself.
Modules(dirs) ==
  LET modules[n \in 0..Len(dirs)] ==
        IF n = 0 THEN <<>>
        ELSE IF IsModules(dirs[n]) THEN modules[n - 1] ELSE Append(modules[n - 1], Append(dirs[n], "node_modules"))
  IN modules[Len(dirs)]
Folders(cwd, env) ==
  Modules(Ancestors(cwd)) \o env.nodePath \o <<Append(env.home, ".node_modules"), Append(env.home, ".node_libraries")>>

\* found
Decides(self, looks) ==
  LET ending == {i \in DOMAIN looks : looks[i].ends}
  IN IF self.ends THEN self.dir ELSE IF ending = {} THEN NotFound ELSE looks[Min(ending)].dir
FoundByName(disk, spec, cwd, env) ==
  LET folders == Folders(cwd, env)
  IN Decides(SelfReference(disk, spec, cwd), [i \in DOMAIN folders |-> InFolder(disk, spec, folders[i])])

\* global_from, locate_by_name
Global(disk, spec, env) ==
  IF env.global # <<>> /\ Under(env.global, spec) \in DOMAIN disk THEN Found(Under(env.global, spec)) ELSE NotFound
FirstOf(found, global) == IF found # NotFound THEN found ELSE global
LocateByName(disk, spec, cwd, env) == FirstOf(FoundByName(disk, spec, cwd, env), Global(disk, spec, env))

\* qualifies
Qualifies(manifest) ==
  /\ manifest.object /\ manifest.name \notin {"", "other"}
  /\ manifest.apiVersion = 1 /\ manifest.entry \notin {"absent", ""}

\* resolve, for the directory it is in: `spec.path` is that of one that is a
\* path.
ResolveIn(disk, spec, dirs) ==
  LET fails(why) == [ok |-> FALSE, why |-> why]
  IN IF dirs = NotFound THEN fails("not found")
     ELSE IF dirs[1] \notin DOMAIN disk \/ ~disk[dirs[1]].json THEN fails(IF spec.byPath THEN "not found" ELSE "bad manifest")
     ELSE IF ~Qualifies(disk[dirs[1]]) THEN fails("bad manifest")
     ELSE IF disk[dirs[1]].entry = "missing" THEN fails("no entry")
     ELSE [ok |-> TRUE, dir |-> dirs[1], from |-> IF spec.byPath THEN spec.path ELSE Under(<<>>, spec),
           name |-> IF disk[dirs[1]].name = "absent" THEN Last(dirs[1]) ELSE disk[dirs[1]].name]
Resolve(disk, spec, cwd, env) ==
  ResolveIn(disk, spec, IF spec.byPath THEN Found(spec.path) ELSE LocateByName(disk, spec, cwd, env))

-----------------------------------------------------------------------------
(* The verbs.  A name is its parts: "bad" is one that no name has, "_" a     *)
(* dot, a dash or an underscore, which none begins with.                     *)

\* default_plugin_name: one prefix of each kind, unless nothing is left.
DefaultPluginName(name) ==
  LET slashes == {0} \cup {i \in DOMAIN name : name[i] = "/"}
      bare == SubSeq(name, Max(slashes) + 1, Len(name))
      without(prefix, n) == IF n # <<>> /\ Head(n) = prefix THEN Tail(n) ELSE n
      trimmed == without("plugin-", without("tagents-plugin-", bare))
  IN IF trimmed = <<>> THEN bare ELSE trimmed

\* is_name
IsName(name) == name # <<>> /\ name[1] # "_" /\ \A i \in DOMAIN name : name[i] \notin {"bad", "/"}

Stays == [code |-> 0 - 1, edits |-> FALSE]
Says(code) == [code |-> code, edits |-> FALSE]
\* What the edit came to (config::add, config::remove).
Edited(made) ==
  CASE made = "written" -> [code |-> 0, edits |-> TRUE]
    [] made \in {"exists", "absent"} -> Says(3)
    [] OTHER -> Says(1)

\* create, for what writing the files came to.
NewVerb(call, made) == IF ~IsName(call.word) THEN Says(2) ELSE [Edited(made) EXCEPT !.edits = FALSE]

\* serve, add, remove: `call` is the verb and what the grammar made of its
\* arguments; `resolved` and `made` are what resolving and editing came to.
Serve(call, cwd, resolved, made) ==
  IF call.verb \notin {"add", "remove", "new"} THEN Stays
  ELSE IF cwd = "gone" THEN Says(1)
  ELSE IF call.refused \/ call.word = <<>> THEN Says(2)
  ELSE CASE call.verb = "remove" -> Edited(made)
         [] call.verb = "add" ->
              IF ~resolved.ok THEN Says(IF resolved.why = "not found" THEN 1 ELSE 3)
              ELSE IF ~IsName(IF call.name # <<>> THEN call.name ELSE DefaultPluginName(resolved.name)) THEN Says(2)
              ELSE Edited(made)
         [] OTHER -> NewVerb(call, made)

-----------------------------------------------------------------------------
(* The files of a new plugin.  `tree` is the paths there are, `files` the    *)
(* ones to write, below `dir`.  `fails` is the file whose write fails, `made` *)
(* how deep its way was made: the directories that were missing, from the top, *)
(* then the file itself, whole or half; `fault` is what failed before any     *)
(* write.  Meanwhile another program may put its own there.                  *)

Up(path) == {SubSeq(path, 1, n) : n \in 0..Len(path)}
Children(tree, path) == {p \in tree : IsStrictPrefix(path, p)}

\* holds_anything
HoldsAnything(tree, dir) == dir \in tree /\ Children(tree, dir) # {}

\* topmost_missing
TopmostMissing(tree, dir) ==
  LET missing == {p \in Up(dir) : \A q \in Up(dir) : IsPrefix(p, q) => q \notin tree}
  IN IF missing = {} THEN NotFound ELSE Found(CHOOSE p \in missing : \A q \in missing : Len(p) <= Len(q))

\* write_file, of each: the directories on the way, then the file.
WriteFile(paths) == UNION {Up(path) : path \in paths}

\* create_dir_all and the write, when one of them fails.
WriteFails(tree, path, made) == tree \cup {p \in Up(path) : Len(p) <= made}

\* remove_dir of each, deepest first: one stays when something lies in it that
\* is none of them.
RemoveDirs(tree, dirs) == {p \in tree : p \notin dirs \/ \E q \in tree \ dirs : IsPrefix(p, q)}

\* Mutant: the directories on the way to the target stay.
Upwards_Not(tree, dir, topmost) == RemoveDirs(tree, {dir})

\* `dir` and the directories above it that were made, until one is not empty:
\* none when `dir` itself is not there.
Upwards(tree, dir, topmost) ==
  IF dir \notin tree THEN tree ELSE RemoveDirs(tree, {p \in Up(dir) : Len(p) >= Len(topmost)})

\* undo
Undo(tree, dir, attempted, topmost) ==
  LET files == {dir \o f : f \in Range(attempted)}
      dirs == UNION {{p \in Up(f) : Len(p) > Len(dir) /\ p # f} : f \in files}
      below == RemoveDirs(tree \ files, dirs)
  IN IF topmost = NotFound THEN below ELSE Upwards(below, dir, topmost[1])

\* write_files, create: `dir` cannot be listed, or node's root is not found.
WriteFiles(tree, dir, files, fails, made, fault, others) ==
  LET topmost == TopmostMissing(tree, dir)
      wrote(n) == tree \cup WriteFile({dir \o files[i] : i \in 1..n})
      failing == WriteFails(wrote(fails - 1), dir \o files[fails], made) \cup WriteFile(others)
      stops(code) == [code |-> code, tree |-> wrote(0) \cup WriteFile(others)]
  IN IF dir \in tree /\ fault = "scandir" THEN stops(1)
     ELSE IF HoldsAnything(tree, dir) THEN stops(3)
     ELSE IF fault = "root" THEN stops(1)
     ELSE IF fails \in DOMAIN files
     THEN [code |-> 1, tree |-> Undo(failing, dir, SubSeq(files, 1, fails), topmost)]
     ELSE [code |-> 0, tree |-> wrote(Len(files)) \cup WriteFile(others)]

-----------------------------------------------------------------------------
(* Properties *)

ExportedAt(disk, root, spec) == root \in DOMAIN disk /\ disk[root].object /\ Allows(disk[root], spec)
\* For what is in the folders of modules nearest first, and exported there.
TakesTheNearest(disk, spec, cwd, env, resolved, nearest, exported) ==
  LET self == {d \in DOMAIN disk : disk[d].name = spec.package /\ IsPrefix(d, cwd)}
      global == Under(env.global, spec)
  IN /\ resolved.ok => disk[resolved.dir].entry = "there" /\ disk[resolved.dir].apiVersion = 1
     /\ resolved.ok /\ spec.byPath => resolved.dir = spec.path
     /\ resolved.ok /\ ~spec.byPath =>
          \/ resolved.dir \in self
          \/ env.global # <<>> /\ resolved.dir = global
          \/ exported /\ resolved.dir = Under(nearest[1], spec)
     /\ ~spec.byPath /\ nearest # NotFound /\ Range(Ancestors(cwd)) \cap DOMAIN disk = {} =>
          IF ~exported THEN resolved.ok => resolved.dir = global
          ELSE resolved.ok = (Qualifies(disk[Under(nearest[1], spec)]) /\ disk[Under(nearest[1], spec)].entry = "there")
Nearest(disk, spec, folders) ==
  LET having == {i \in DOMAIN folders : Under(folders[i], spec) \in DOMAIN disk}
  IN IF having = {} THEN NotFound ELSE Found(folders[Min(having)])
WithNearest(disk, spec, cwd, env, nearest) ==
  TakesTheNearest(disk, spec, cwd, env, Resolve(disk, spec, cwd, env), nearest,
                  nearest # NotFound /\ ExportedAt(disk, nearest[1] \o <<spec.package>>, spec))

\* A name is the package nearest to the working directory: nothing further
\* away is taken for one that is there and is not exported, but for the global
\* folder; and what resolves is a plugin whose entry is there (resolve).
NearestPackageIsTaken(disk, spec, cwd, env) ==
  WithNearest(disk, spec, cwd, env, Nearest(disk, spec, Folders(cwd, env)))

\* A call that fails has not edited, and one that edits has found a plugin and
\* a name that `plugin remove` and a person can type.  The name of a package
\* whose characters can be typed is refused only for the sign it begins with
\* once the prefixes are gone (serve, add, is_name).
FailuresEditNothing(call, cwd, resolved, made) ==
  LET said == Serve(call, cwd, resolved, made)
      name == IF call.name # <<>> THEN call.name ELSE DefaultPluginName(resolved.name)
  IN /\ said.edits => said.code = 0 /\ made = "written" /\ cwd # "gone"
     /\ said.edits /\ call.verb = "add" => resolved.ok /\ IsName(name)
     /\ resolved.ok => ("bad" \notin Range(resolved.name) /\ Last(resolved.name) # "/" =>
                          IsName(DefaultPluginName(resolved.name)) \/ DefaultPluginName(resolved.name)[1] = "_")

\* A new plugin is there whole or not at all: whatever fails, what was there
\* before is there, what another program put there stays with the directories
\* it lies in, and nothing else is left, but for directories above the target
\* when the target itself could not be made (write_files, undo).
WrittenAllOrNone(tree, dir, files, fails, made, fault, others) ==
  LET written == WriteFiles(tree, dir, files, fails, made, fault, others)
      kept == tree \cup WriteFile(others)
  IN /\ written.code = 0 => \A i \in DOMAIN files : dir \o files[i] \in written.tree
     /\ written.code = 3 => written.tree = kept
     /\ written.code = 1 => /\ kept \subseteq written.tree
                            /\ \A p \in written.tree \ kept :
                                 fails = 1 /\ made < Len(dir) /\ IsStrictPrefix(p, dir)
=============================================================================
