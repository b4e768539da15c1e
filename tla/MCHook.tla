------------------------------- MODULE MCHook -------------------------------
EXTENDS InstallHook, TLC
MCPlain == "npm:a" :> "a"
MCInline == "--package=a" :> "a"
Server(launch) == [url |-> "", sse |-> FALSE, launch |-> launch]
Remote(url, sse) == [url |-> url, sse |-> sse, launch |-> << >>]
MCJson == "{npx b}" :> Server(<<"npx", "b">>) @@ "{sse}" :> Remote("https://mcp", TRUE) @@ "{" :> Unreadable
Line(toks) == [body |-> FALSE, toks |-> toks]
Body(toks) == [body |-> TRUE, toks |-> toks]
Command(lines) == [kind |-> "command", command |-> lines]
Add == <<"claude", "mcp", "add">>
MCCommands == {
  <<Line(<<"npm", "install", "a">>), Line(<<"npx", "-y", "npm:a">>)>>,
  <<Line(<<"npm", "i", "-w", "api", "a", "b", "redirect", "out">>), Body(<<"npm", "i", "evil">>)>>,
  <<Line(<<"npm", "i", "c", "a", "b">>)>>,
  <<Line(<<"yarn", "global", "add", "git+x", "./dir">>), Line(<<"bun", "x", "--package=a", "b">>)>>,
  <<Line(Add \o <<"--transport", "sse", "srv", "https://mcp">>)>>,
  <<Line(Add \o <<"srv", "npx", "-y", "a">>)>>,
  <<Line(Add \o <<"--env", "K", "srv", "--", "npx", "a", "redirect", "out">>)>>,
  <<Line(Add \o <<"srv", "--", "pkgxray", "mcp-proxy", "--policy", "strict", "npx", "b">>)>>,
  <<Line(Add \o <<"srv", "./server">>)>>,
  <<Line(<<"claude", "mcp", "add-json", "srv", "{npx b}">>)>>,
  <<Line(<<"claude", "mcp", "add-json", "srv", "{">>)>>}
Config(old, new) == [kind |-> "config", old |-> old, new |-> new]
Manifest(old, new) == [kind |-> "manifest", old |-> old, new |-> new]
One == "s1" :> Server(<<"npx", "a">>)
Two == One @@ "s2" :> Server(<<"./server">>)
Three == "s1" :> Remote("https://mcp", FALSE) @@ "s2" :> Server(<<"npx", "b">>)
MCEvents ==
    {Command(c) : c \in MCCommands}
    \cup {Config(Unreadable, One), Config(One, Two), Config(Two, Three), Config(One, Unreadable)}
    \cup {Manifest(<< >>, "a" :> "1.0.0" @@ "c" :> "./dir"), Manifest("a" :> "^1", "a" :> "^1"),
          Manifest("a" :> "^1", "a" :> "^2" @@ "b" :> "git+x")}
============================================================================
