SPECIFICATION ConfigurationSpec
CONSTANTS
  NodeOrder <- MCNodeOrder
  Manifests <- MCManifests
  ServiceManifests <- MCServiceManifests
  SafeCharacters = {"a", "b", "c", "s", "t"}
  NoManifest = NoManifest
  ChannelIds = 8
  DefaultHeap = 1
  MaxHeap = 2
  Unset = Unset
INVARIANTS
  ReferencesNeverDangle
  
  ServicesUsable
