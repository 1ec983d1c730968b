SPECIFICATION Spec
CONSTANTS
  WordMax = 15
  PointerSize = 4
  MaxPrologue = 4
  BuiltIn <- MCBuiltIn
  Providers <- MCProviders
  Capability = {"CameraInverseViewProjection", "WeatherTimeOfDay"}
  Identity <- MCIdentity
  Table <- MCTable
  Provider <- MCProvider
  DescriptorList <- MCDescriptorList
  Address <- MCAddress
  Region <- MCRegion
  PropertyName = {"camera.inverse_view_projection", "camera.world_fov", "weather.current_form_id", "camera.roll"}
  CounterModulus = 6
  FrameModulus = 3
  FloatExact = 4
INVARIANTS
  TypeOK
  ReadyIsJustified
  CameraIsAdmitted
PROPERTIES
  LiveValuesAdvance
