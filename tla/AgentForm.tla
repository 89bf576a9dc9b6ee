------------------------------ MODULE AgentForm ------------------------------
(***************************************************************************)
(* The dialog that creates an agent (pages/agents/AgentFormDialog.tsx): a  *)
(* template step, then a form in five tabs, which can be turned into YAML  *)
(* or JSON text and back, and the POST of /v1/agents.                      *)
(***************************************************************************)
EXTENDS Naturals, Sequences, FiniteSets, SequencesExt

CONSTANTS
  Cards,      \* model cards; the first-class default is DefaultCard
  DefaultCard,
  Fallback,   \* the model a pasted config without one gets
  Gateways,   \* flat gateway harnesses
  Runtimes,   \* registered runtimes: Detected[r] is the sequence of its agents
  Detected,
  AcpDefault, \* claude-agent-acp
  Local,      \* local skills a daemon reports
  Tools,      \* built-in tools
  Skills,     \* skills, Anthropic's and custom
  Servers,    \* MCP servers of the registry
  Agents,     \* agents that can be called
  Pasted,     \* what configurations a user may type say of the harness: Binding's shape
  None

VARIABLES ui, srv, left

On == ui.page = "agent_form"

-----------------------------------------------------------------------------
(***************************************************************************)
(* The form, the configuration it is written to, and back.                 *)
(***************************************************************************)
Policies == {"always_allow", "always_ask"}

\* parseThinkingLevel: a level of another name is off.
ThinkingLevels == {"off", "minimal", "low", "medium", "high", "xhigh"}

INITIAL_FORM ==
  [name |-> FALSE, model |-> None, card |-> None, mcp |-> <<>>, skills |-> {},
   callable |-> <<>>, runtime |-> None, acp |-> AcpDefault, blocked |-> {},
   managed |-> None, enabled |-> TRUE, permission |-> "always_allow",
   overrides |-> [t \in {} |-> ""], general |-> FALSE, team |-> FALSE,
   thinking |-> "off"]

\* A key that may be missing from a configuration is a set of at most one value.
When(there, value) == IF there THEN {value} ELSE {}

Or(key, default) == IF key = {} THEN default ELSE CHOOSE v \in key : TRUE

\* The entry of a tool whose policy is not the default one.
Override(t, state) ==
  IF state = "disabled" THEN [name |-> t, enabled |-> {FALSE}, policy |-> {}]
  ELSE [name |-> t, enabled |-> {TRUE}, policy |-> {state}]

\* The built-in toolset, and one of its own for each MCP server that has a name.
buildToolsField(f) ==
  LET chosen == {t \in DOMAIN f.overrides : f.overrides[t] # "default"}
      configs == {Override(t, f.overrides[t]) : t \in chosen}
  IN [toolset |-> {[enabled |-> {f.enabled}, policy |-> {f.permission},
                    configs |-> When(configs # {}, configs)]},
      mcp |-> {f.mcp[i].name : i \in {j \in DOMAIN f.mcp : f.mcp[j].name # None}}]

buildAgentMetadata(f) ==
  When(f.team \/ f.thinking # "off",
       [enable_team_tools |-> When(f.team, TRUE),
        thinking_level |-> When(f.thinking # "off", f.thinking)])

NoBinding ==
  [runtime_id |-> {}, acp_agent_id |-> {}, local_skill_blocklist |-> {}, agent |-> {}]

\* The harness in the body that create posts.
Binding(f) ==
  IF f.runtime # None /\ f.acp # None
  THEN {[harness |-> "acp-proxy",
         binding |-> {[NoBinding EXCEPT !.runtime_id = {f.runtime}, !.acp_agent_id = {f.acp},
                         !.local_skill_blocklist = When(f.blocked # {}, f.blocked)]}]}
  ELSE When(f.managed # None, [harness |-> f.managed, binding |-> {}])

\* The body create posts.
Payload(f) ==
  [name |-> f.name, model |-> f.model, tools |-> {buildToolsField(f)},
   mcp_servers |-> When(f.mcp # <<>>, f.mcp), skills |-> When(f.skills # {}, f.skills),
   multiagent |-> When(f.callable # <<>>, f.callable),
   general |-> When(f.general, TRUE), metadata |-> buildAgentMetadata(f),
   oma |-> Binding(f)]

\* Slip: the binding is left out, as it once was.
formToConfigNoBinding(f) == [Payload(f) EXCEPT !.oma = {}]

\* The text of the editor: the same keys, written by code of its own.
formToConfig(f) ==
  LET acp == [NoBinding EXCEPT !.runtime_id = {f.runtime}, !.acp_agent_id = {f.acp},
                !.local_skill_blocklist = When(f.blocked # {}, f.blocked)]
  IN [name |-> f.name, model |-> f.model, tools |-> {buildToolsField(f)},
      mcp_servers |-> When(f.mcp # <<>>, f.mcp), skills |-> When(f.skills # {}, f.skills),
      multiagent |-> When(f.callable # <<>>, f.callable),
      general |-> When(f.general, TRUE), metadata |-> buildAgentMetadata(f),
      oma |-> IF f.runtime # None /\ f.acp # None
              THEN {[harness |-> "acp-proxy", binding |-> {acp}]}
              ELSE When(f.managed # None, [harness |-> f.managed, binding |-> {}])]

\* A gateway is its own harness; old rows name it under "managed", which deepseek
\* is too young for.
ManagedIn(harness, rb) ==
  IF harness \in Gateways THEN harness
  ELSE IF harness = "managed" /\ Or(rb.agent, None) \in Gateways \ {"deepseek"}
       THEN Or(rb.agent, None)
  ELSE None

\* What an entry of a tool says; one that says neither is dropped.
StateOf(entry) ==
  IF entry.enabled = {FALSE} THEN "disabled"
  ELSE IF Or(entry.policy, "default") \in Policies THEN Or(entry.policy, "default")
  ELSE "default"

overridesIn(configs) ==
  LET said == {c \in configs : StateOf(c) # "default"}
  IN [t \in {c.name : c \in said} |-> StateOf(CHOOSE c \in said : c.name = t)]

\* The binding is looked for under _oma, or in the configuration itself as in old rows;
\* a runtime counts for acp-proxy only, its agent and its blocklist for any harness.
parseConfig(c) ==
  LET oma == Or(c.oma, [harness |-> None, binding |-> {}])
      rb == Or(oma.binding, NoBinding)
      none == [enabled |-> {}, policy |-> {}, configs |-> {}]
      toolset == Or(Or(c.tools, [toolset |-> {}, mcp |-> {}]).toolset, none)
      md == Or(c.metadata, [enable_team_tools |-> {}, thinking_level |-> {}])
      level == Or(md.thinking_level, "off")
  IN [INITIAL_FORM EXCEPT
        !.name = c.name, !.model = IF c.model = None THEN Fallback ELSE c.model,
        !.mcp = Or(c.mcp_servers, <<>>), !.skills = Or(c.skills, {}),
        !.callable = Or(c.multiagent, <<>>),
        !.runtime = IF oma.harness = "acp-proxy" THEN Or(rb.runtime_id, None) ELSE None,
        !.acp = Or(rb.acp_agent_id, AcpDefault),
        !.blocked = Or(rb.local_skill_blocklist, {}),
        !.managed = ManagedIn(oma.harness, rb),
        !.enabled = Or(toolset.enabled, TRUE),
        !.permission = IF toolset.policy = {"always_ask"} THEN "always_ask"
                       ELSE "always_allow",
        !.overrides = overridesIn(Or(toolset.configs, {})),
        !.general = c.general = {TRUE}, !.team = md.enable_team_tools = {TRUE},
        !.thinking = IF level \in ThinkingLevels THEN level ELSE "off"]

-----------------------------------------------------------------------------
(***************************************************************************)
(* The dialog.  Text is a configuration in a language, or cannot be parsed. *)
(***************************************************************************)
Garbled   == [lang |-> "none"]
Text(l, c) == [lang |-> l, of |-> c]

Fresh ==
  [page |-> "agent_form", open |-> TRUE, step |-> "template", form |-> INITIAL_FORM,
   mode |-> "form", code |-> Garbled, error |-> FALSE]

Init ==
  /\ ui = Fresh
  /\ srv = [posts |-> <<>>, cards |-> FALSE, off |-> {}, agents |-> 0]

closeCreate(u) ==
  [u EXCEPT !.open = FALSE, !.step = "template", !.form = INITIAL_FORM, !.mode = "form",
            !.code = Garbled, !.error = FALSE]

\* The default card is chosen on entering the form and when the cards arrive.
Hydrated(u, have) ==
  IF u.step = "form" /\ have /\ u.form.card = None /\ u.form.model = None
  THEN [u EXCEPT !.form.card = DefaultCard, !.form.model = DefaultCard] ELSE u

CardsArrive ==
  /\ On /\ ~srv.cards
  /\ srv' = [srv EXCEPT !.cards = TRUE]
  /\ ui' = Hydrated(ui, TRUE)
  /\ UNCHANGED left

\* /v1/config/harnesses: until it answers every gateway can be picked.
HarnessesArrive ==
  /\ On /\ srv.off = {}
  /\ \E g \in Gateways : srv' = [srv EXCEPT !.off = {g}]
  /\ UNCHANGED <<ui, left>>

selectTemplate(u, blank, s, k) ==
  LET f == IF blank THEN INITIAL_FORM
           ELSE [INITIAL_FORM EXCEPT !.name = TRUE, !.model = DefaultCard,
                   !.mcp = <<[name |-> s, url |-> s]>>, !.skills = {k}]
  IN Hydrated([u EXCEPT !.form = f, !.step = "form"], srv.cards)

TemplateStep ==
  /\ On /\ ui.open /\ ui.step = "template"
  /\ \/ \E blank \in BOOLEAN, s \in Servers, k \in Skills :
          ui' = selectTemplate(ui, blank, s, k)
     \/ ui' = closeCreate(ui)
  /\ UNCHANGED <<srv, left>>

\* Back to the templates: the form and the text stay until one is chosen.
BackToTemplates ==
  /\ On /\ ui.open /\ ui.step = "form" /\ left > 0
  /\ ui' = [ui EXCEPT !.step = "template", !.mode = "form"]
  /\ left' = left - 1
  /\ UNCHANGED srv

\* Cancel, Escape and a click beside the dialog.
Cancel ==
  /\ On /\ ui.open /\ ui.step = "form"
  /\ ui' = closeCreate(ui)
  /\ UNCHANGED <<srv, left>>

Reopen ==
  /\ On /\ ~ui.open /\ left > 0
  /\ ui' = [ui EXCEPT !.open = TRUE]
  /\ left' = left - 1
  /\ UNCHANGED srv

-----------------------------------------------------------------------------
(***************************************************************************)
(* The tabs.                                                               *)
(***************************************************************************)
Edit(f) ==
  /\ On /\ ui.open /\ ui.step = "form" /\ ui.mode = "form" /\ left > 0
  /\ ui' = [ui EXCEPT !.form = f]
  /\ left' = left - 1
  /\ UNCHANGED srv

OnCloud(f) == f.runtime = None /\ f.managed = None

\* The model and the thinking level are shown for cloud agents only.
BasicTab ==
  \/ Edit([ui.form EXCEPT !.name = TRUE])
  \/ /\ On /\ OnCloud(ui.form) /\ srv.cards
     /\ \E c \in Cards : Edit([ui.form EXCEPT !.card = c, !.model = c])
  \/ /\ On /\ OnCloud(ui.form)
     /\ \E l \in ThinkingLevels : Edit([ui.form EXCEPT !.thinking = l])

\* Choosing a harness clears the other kind of binding, not the skills hidden.
HarnessSelect ==
  \/ On /\ Edit([ui.form EXCEPT !.runtime = None, !.acp = AcpDefault, !.managed = None])
  \/ \E g \in Gateways :
       /\ On /\ g \notin srv.off
       /\ Edit([ui.form EXCEPT !.runtime = None, !.acp = AcpDefault, !.managed = g])
  \/ \E r \in Runtimes :
       On /\ Edit([ui.form EXCEPT !.runtime = r, !.managed = None,
                     !.acp = IF Detected[r] = <<>> THEN @ ELSE Head(Detected[r])])

AcpAgentPicker ==
  /\ On /\ ui.form.managed = None /\ ui.form.runtime # None
  /\ \E a \in ToSet(Detected[ui.form.runtime]) :
       Edit([ui.form EXCEPT !.acp = a, !.blocked = {}])

LocalSkillBlocklist ==
  /\ On /\ ui.form.managed = None /\ ui.form.runtime # None
  /\ \/ Edit([ui.form EXCEPT !.blocked = {}])
     \/ \E k \in Local :
          Edit([ui.form EXCEPT !.blocked = IF k \in @ THEN @ \ {k} ELSE @ \cup {k}])

Overridden(overrides, t, v) ==
  [x \in DOMAIN overrides \cup {t} |-> IF x = t THEN v ELSE overrides[x]]

\* A tool set to "default" has no entry.
ToolsTab ==
  \/ On /\ Edit([ui.form EXCEPT !.enabled = ~@])
  \/ \E p \in Policies : On /\ ui.form.enabled /\ Edit([ui.form EXCEPT !.permission = p])
  \/ \E t \in Tools, v \in Policies \cup {"disabled"} :
       On /\ Edit([ui.form EXCEPT !.overrides = Overridden(@, t, v)])
  \/ \E t \in Tools :
       On /\ Edit([ui.form EXCEPT !.overrides = [x \in DOMAIN @ \ {t} |-> @[x]]])

toggleSkill(f, k) == [f EXCEPT !.skills = IF k \in @ THEN @ \ {k} ELSE @ \cup {k}]

SkillsTab == \E k \in Skills : On /\ Edit(toggleSkill(ui.form, k))

addMcp(f) == [f EXCEPT !.mcp = Append(@, [name |-> None, url |-> None])]

addMcpFromRegistry(f, s) ==
  IF \E i \in DOMAIN f.mcp : f.mcp[i].url = s THEN f
  ELSE [f EXCEPT !.mcp = Append(@, [name |-> s, url |-> s])]

McpTab ==
  \/ On /\ Edit(addMcp(ui.form))
  \/ \E s \in Servers : On /\ Edit(addMcpFromRegistry(ui.form, s))
  \/ /\ On /\ ui.form.mcp # <<>>
     /\ \/ \E s \in Servers : Edit([ui.form EXCEPT !.mcp[1].name = s])
        \/ \E s \in Servers : Edit([ui.form EXCEPT !.mcp[1].url = s])
        \/ Edit([ui.form EXCEPT !.mcp = Tail(@)])

addCallable(f, a) ==
  IF a \in ToSet(f.callable) THEN f ELSE [f EXCEPT !.callable = Append(@, a)]

AgentsTab ==
  \/ On /\ Edit([ui.form EXCEPT !.general = ~@])
  \/ On /\ Edit([ui.form EXCEPT !.team = ~@])
  \/ \E a \in Agents : On /\ Edit(addCallable(ui.form, a))
  \/ On /\ ui.form.callable # <<>> /\ Edit([ui.form EXCEPT !.callable = Tail(@)])

-----------------------------------------------------------------------------
(***************************************************************************)
(* The three modes and the POST.                                           *)
(***************************************************************************)
Parses(mode, code) == code.lang = mode

\* Text that cannot be parsed stays what it is, or leaves the form as it was.
switchMode(mode) ==
  /\ On /\ ui.open /\ ui.step = "form" /\ mode # ui.mode
  /\ ui' = [ui EXCEPT
       !.mode = mode,
       !.code = IF ui.mode = "form" THEN Text(mode, formToConfig(ui.form))
                ELSE IF mode # "form" /\ Parses(ui.mode, @) THEN Text(mode, @.of)
                ELSE @,
       !.form = IF mode = "form" /\ Parses(ui.mode, ui.code)
                THEN parseConfig(ui.code.of) ELSE @]
  /\ UNCHANGED <<srv, left>>

\* What a user may type of the tools: nothing, MCP toolsets only, or an entry of a tool
\* that says something, nothing, or both that the tool is off and how it may be used.
TypedTools ==
  LET entries == {[name |-> t, enabled |-> e, policy |-> p] :
                    t \in Tools, e \in {{}, {FALSE}}, p \in {{}, {"always_ask"}, {"other"}}}
  IN {{}, {[toolset |-> {}, mcp |-> Servers]}} \cup
     {{[toolset |-> {[enabled |-> {}, policy |-> {}, configs |-> {{c}}]}, mcp |-> {}]} :
        c \in entries}

TypedMetadata ==
  {{[enable_team_tools |-> t, thinking_level |-> {l}]} : t \in {{}, {TRUE}}, l \in {"low", "other"}}

\* A configuration that a user typed has a name and, of all else, one thing.
Typed ==
  LET named == [formToConfig(INITIAL_FORM) EXCEPT !.name = TRUE]
  IN {[named EXCEPT !.oma = o] : o \in Pasted}
     \cup {[named EXCEPT !.tools = t] : t \in TypedTools}
     \cup {[named EXCEPT !.metadata = m] : m \in TypedMetadata}

Type ==
  /\ On /\ ui.open /\ ui.step = "form" /\ ui.mode # "form" /\ left > 0
  /\ \E t \in {Garbled} \cup {Text(ui.mode, c) : c \in Typed} :
       ui' = [ui EXCEPT !.code = t]
  /\ left' = left - 1
  /\ UNCHANGED srv

Post(c) == srv' = [srv EXCEPT !.posts = Append(@, c)]

\* The buttons wait for a name, or for text: nothing says a POST is under way.
Footer(u) == u.open /\ u.step = "form" /\ (u.mode = "form" => u.form.name)

create ==
  /\ On /\ Footer(ui) /\ ui.mode = "form" /\ left > 0
  /\ ui' = [ui EXCEPT !.error = FALSE]
  /\ Post(Payload(ui.form))
  /\ left' = left - 1

\* Text that says nothing of the tools gets the built-in ones.
Bare == [toolset |-> {[enabled |-> {}, policy |-> {}, configs |-> {}]}, mcp |-> {}]

createFromCode ==
  /\ On /\ Footer(ui) /\ ui.mode # "form" /\ left > 0
  /\ LET ok == Parses(ui.mode, ui.code) /\ ui.code.of.name
     IN /\ ui' = [ui EXCEPT !.error = ~ok]
        /\ IF ok THEN Post([ui.code.of EXCEPT !.tools = {Or(@, Bare)}]) ELSE UNCHANGED srv
  /\ left' = left - 1

\* The answer to any POST closes the dialog as it is now and leaves the page.
Created ==
  /\ On /\ srv.posts # <<>>
  /\ srv' = [srv EXCEPT !.posts = Tail(@), !.agents = @ + 1]
  /\ ui' = [closeCreate(ui) EXCEPT !.page = "agent"]
  /\ UNCHANGED left

CreateFails ==
  /\ On /\ srv.posts # <<>>
  /\ srv' = [srv EXCEPT !.posts = Tail(@)]
  /\ ui' = [ui EXCEPT !.error = TRUE]
  /\ UNCHANGED left

Next ==
  \/ CardsArrive \/ HarnessesArrive
  \/ TemplateStep \/ BackToTemplates \/ Cancel \/ Reopen
  \/ BasicTab \/ HarnessSelect \/ AcpAgentPicker \/ LocalSkillBlocklist
  \/ ToolsTab \/ SkillsTab \/ McpTab \/ AgentsTab
  \/ \E mode \in {"form", "yaml", "json"} : switchMode(mode)
  \/ Type \/ create \/ createFromCode \/ Created \/ CreateFails

-----------------------------------------------------------------------------
\* Turning the form into text and back, with nothing edited, leaves the agent
\* that create would post, but for the model, which gets a default.
FormRoundTrips ==
  LET again == parseConfig(formToConfig(ui.form))
  IN On => Payload(again) =
             [Payload(ui.form) EXCEPT !.model = IF @ = None THEN Fallback ELSE @]
=============================================================================
