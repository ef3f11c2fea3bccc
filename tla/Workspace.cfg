SPECIFICATION Spec
CHECK_DEADLOCK FALSE
CONSTANTS
  Docs = {d1, d2}
  NoDoc = NoDoc
  MaxPanes = 3
  PaneBudgets <- MCPaneBudgets
  PaneOrder <- MCPaneOrder
  CanvasPanes = {3}
  Images = {a, b}
  StoredImages = {a}
  MaxSceneChanges = 3
  Documents <- MCDocuments
  Queries <- MCQueries
  Replacements <- MCReplacements
  Letters = {"a", "r"}
  MaxEdits = 2
  MaxChunks = 1
  PluginOrder <- MCPluginOrder
  Kinds = {"block", "tool"}
  Capabilities <- MCCapabilities
  BadCleanup = {"b"}
  MaxPluginSteps = 2
  ByUpdated <- MCByUpdated
  Projects = {"p", "q"}
  NoProject = "none"
  MaxDashSteps = 2
  ProjectOrder <- MCProjectOrder
  Hyphenated = {"q"}
  Nobody = "nobody"
  MaxProjSteps = 2
  RecentPaths = {"a", "b", "c"}
  MaxRecents = 2
  MaxRecentSteps = 3
  PaletteProjects <- MCProjectOrder
  PaletteDocs <- MCPaletteDocs
  NoOne = NoOne
  MaxUsage = 2
  MaxPaletteSteps = 4
INVARIANTS
   StoredAsLeft 
  SaveReachesActivePane
  NewestSceneKept ImagesKept
  FormFollowsEditor
  OnlyRunningContribute RecoveredStayOff
  ListIsCurrent  ProjectCommandsCurrent
PROPERTIES
  ReplaceAllReplaces LoadSettlesCurrent
