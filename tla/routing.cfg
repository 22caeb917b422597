CONSTANTS
  o1 = o1
  o2 = o2
  plain = plain
  near = near
  cn = cn
  exact = exact
  dotted = dotted
  range = range
  Inbounds <- MCInbounds
  LocalProxies <- MCLocalProxies
  ShadowTLS = {1}
  Outbounds = {o1, o2}
  Unproxied = {o2}
  Direct = direct
  Group = group
  Targets <- MCTargets
  Items <- MCItems
  Form <- MCForm
  Meant <- MCMeant
  Reads <- MCReads
  ReadsEmpty <- MCTargets
  GeoPreview = {near}
  GeoData = {cn}
  Rule <- MCRule
  NewRules <- MCNewRules
  MaxRules = 2
SPECIFICATION Spec
INVARIANT PreviewTellsKernel
PROPERTY SwitchIsLocal
